---- MODULE Spec2Model ----
(***************************************************************************)
(* A model of the gitops-operator reconciliation pipeline:                 *)
(*   configuration.rs  deployment_to_entry, process_deployment, reconcile  *)
(*   files.rs          needs_patching, patch_deployment                    *)
(*   git.rs            clone_or_update_repo, pull_repo, get_latest_commit, *)
(*                     stage_and_push_changes, commit_changes              *)
(* Strings on which the code computes (split, trim, contains, format!) are *)
(* sequences of one-character strings.                                     *)
(***************************************************************************)
EXTENDS Integers, Sequences, FiniteSets, TLC

(* ------------------------------ bounds -------------------------------- *)
\* commits that may ever exist in the object stores (operator + third parties)
MaxCommits == 6
\* Deployments in the reflector cache at one time
MaxCache == 2
\* /reconcile requests served in one behaviour
MaxDispatch == 2
\* pushes by third parties to the remotes in one behaviour
MaxExtPush == 1
\* containers of a manifest file handed to needs_patching and patch_deployment
MaxContainers == 2
\* calls made on one repository
MaxGitCalls == 2

(* ------------------------- program constants -------------------------- *)
\* length of a commit id in hex
ShaLen == 40
\* length kept by tag_type "short"
ShortShaLen == 7

(* ------------------------------ strings ------------------------------- *)
None == <<>>
Some(x) == <<x>>
IsSome(o) == Len(o) = 1
Unwrap(o) == o[1]

S_true == <<"t","r","u","e">>
S_false == <<"f","a","l","s","e">>
S_yes == <<"y","e","s">>
S_true_padded == <<" ","t","r","u","e"," ">>
S_latest == <<"l","a","t","e","s","t">>
S_master == <<"m","a","s","t","e","r">>
S_dev == <<"d","e","v">>
S_short == <<"s","h","o","r","t">>
S_long == <<"l","o","n","g">>
S_other == <<"t","i","n","y">>
S_app == <<"a","p","p">>
S_web == <<"w","e","b">>
S_old == <<"o","l","d">>
S_ext == <<"e","x","t">>
S_colon == <<":">>
S_dash == <<"-">>
S_slash == <<"/">>
S_tmp_app == <<"/","t","m","p","/","a","p","p","-">>
S_tmp_manifest == <<"/","t","m","p","/","m","a","n","i","f","e","s","t","-">>
S_ns1 == <<"n","s","1">>
S_ns2 == <<"n","s","2">>
S_default == <<"d","e","f","a","u","l","t">>
S_app_url == <<"g","i","t","@","a","p","p">>
S_manifest_url == <<"g","i","t","@","o","p","s">>
S_path == <<"a","p","p",".","y","a","m","l">>
S_key == <<"k","e","y">>
S_registry == <<"r","e","g",".","i","o","/">>
Hex == <<"1","2","3","4","5","6","7","8","9","a","b","c","d","e","f">>

\* str::contains
Contains(s, sub) ==
    \E i \in 0..(Len(s) - Len(sub)) : SubSeq(s, i + 1, i + Len(sub)) = sub

IsSpace(c) == c = " "

\* str::trim
RECURSIVE TrimStart(_)
TrimStart(s) == IF s # <<>> /\ IsSpace(Head(s)) THEN TrimStart(Tail(s)) ELSE s
RECURSIVE TrimEnd(_)
TrimEnd(s) ==
    IF s # <<>> /\ IsSpace(s[Len(s)]) THEN TrimEnd(SubSeq(s, 1, Len(s) - 1)) ELSE s
Trim(s) == TrimEnd(TrimStart(s))

\* str::parse::<bool>
ParseBool(s) == IF s = S_true THEN Some(TRUE) ELSE IF s = S_false THEN Some(FALSE) ELSE None

\* Option::unwrap_or
UnwrapOr(o, d) == IF IsSome(o) THEN Unwrap(o) ELSE d

\* position of the first ':' of s, 0 when there is none
FirstColon(s) ==
    IF \E i \in 1..Len(s) : s[i] = ":"
    THEN CHOOSE i \in 1..Len(s) : s[i] = ":" /\ \A j \in 1..(i - 1) : s[j] # ":"
    ELSE 0

\* position of the last ':' of s, 0 when there is none
LastColon(s) ==
    IF \E i \in 1..Len(s) : s[i] = ":"
    THEN CHOOSE i \in 1..Len(s) : s[i] = ":" /\ \A j \in (i + 1)..Len(s) : s[j] # ":"
    ELSE 0

\* img.rsplitn(2, ':'), the split a tag-aware parser would make
Splitn2_Last(s) ==
    IF LastColon(s) = 0 THEN <<s>>
    ELSE <<SubSeq(s, 1, LastColon(s) - 1), SubSeq(s, LastColon(s) + 1, Len(s))>>

\* img.splitn(2, ':')
Splitn2(s) ==
    IF FirstColon(s) = 0 THEN <<s>>
    ELSE <<SubSeq(s, 1, FirstColon(s) - 1), SubSeq(s, FirstColon(s) + 1, Len(s))>>

\* format!("{}:{}", image_name, new_sha)
ImageRef(image_name, tag) == image_name \o S_colon \o tag


(* ----------------------- cluster Deployments -------------------------- *)
AnnGet(ann, key) == IF key \in DOMAIN ann THEN Some(ann[key]) ELSE None
AnnWith(ann, key, val) == [k \in DOMAIN ann \cup {key} |-> IF k = key THEN val ELSE ann[k]]
AnnWithout(ann, key) == [k \in DOMAIN ann \ {key} |-> ann[k]]

\* every annotation deployment_to_entry reads with `?`
BaseAnn ==
    [ enabled |-> S_true, app_repository |-> S_app_url,
      manifest_repository |-> S_manifest_url, image_name |-> S_app,
      deployment_path |-> S_path, ssh_key_name |-> S_key,
      ssh_key_namespace |-> S_ns1, notifications |-> S_false ]

MkDeployment(name, ns, ann, containers) ==
    [name |-> name, namespace |-> ns, annotations |-> ann, containers |-> containers]

\* the Deployments the cluster may hold
D_app1 == MkDeployment(S_app, Some(S_ns1), Some(BaseAnn), Some(<<Some(ImageRef(S_app, S_old))>>))
D_app2 == MkDeployment(S_app, Some(S_ns2), Some(BaseAnn), Some(<<Some(ImageRef(S_app, S_old))>>))
D_web ==
    MkDeployment(S_web, Some(S_ns1),
        Some(AnnWith(AnnWith(AnnWith(AnnWith(BaseAnn, "image_name", S_web),
             "observe_branch", S_dev), "tag_type", S_short), "notifications", S_true)),
        Some(<<Some(S_web)>>))
D_off ==
    MkDeployment(<<"o","f","f">>, Some(S_ns1), Some(AnnWith(BaseAnn, "enabled", S_false)),
        Some(<<Some(ImageRef(S_app, S_old))>>))
D_nokey ==
    MkDeployment(<<"n","o","k">>, Some(S_ns1), Some(AnnWithout(BaseAnn, "ssh_key_name")),
        Some(<<Some(ImageRef(S_app, S_old))>>))

Universe == <<D_app1, D_app2, D_web, D_off, D_nokey>>
DepIds == 1..Len(Universe)

(* --------------- configuration.rs: deployment_to_entry ---------------- *)
\* a variant that keeps any tag_type as given
NormTagType_Keep(t) == t

NormTagType(t) == IF t = S_short THEN S_short ELSE S_long

RequiredKeys ==
    {"enabled", "app_repository", "manifest_repository", "image_name",
     "deployment_path", "ssh_key_name", "ssh_key_namespace", "notifications"}

\* a variant that would put a Deployment without namespace into "default"
deployment_to_entry_DefaultNs(d) ==
    IF ~IsSome(d.annotations) THEN None
    ELSE IF ~IsSome(d.containers) THEN None
    ELSE IF Len(Unwrap(d.containers)) = 0 THEN None
    ELSE IF ~IsSome(Unwrap(d.containers)[1]) THEN None
    ELSE
      LET ann == Unwrap(d.annotations)
          img == Unwrap(Unwrap(d.containers)[1])
          splits == Splitn2(img)
          container == splits[1]
          version == IF Len(splits) = 2 THEN splits[2] ELSE S_latest
      IN IF \E k \in RequiredKeys : k \notin DOMAIN ann THEN None
         ELSE Some(
           [ name |-> d.name,
             namespace |-> UnwrapOr(d.namespace, S_default),
             annotations |-> ann,
             container |-> container,
             version |-> version,
             config |->
               [ enabled |-> UnwrapOr(ParseBool(Trim(ann["enabled"])), FALSE),
                 namespace |-> UnwrapOr(d.namespace, S_default),
                 app_repository |-> ann["app_repository"],
                 manifest_repository |-> ann["manifest_repository"],
                 image_name |-> ann["image_name"],
                 deployment_path |-> ann["deployment_path"],
                 observe_branch |-> UnwrapOr(AnnGet(ann, "observe_branch"), S_master),
                 tag_type |-> NormTagType(UnwrapOr(AnnGet(ann, "tag_type"), S_long)),
                 ssh_key_name |-> ann["ssh_key_name"],
                 ssh_key_namespace |-> ann["ssh_key_namespace"],
                 notifications |-> UnwrapOr(ParseBool(Trim(ann["notifications"])), FALSE) ] ])

deployment_to_entry(d) ==
    IF ~IsSome(d.namespace) THEN None
    ELSE IF ~IsSome(d.annotations) THEN None
    ELSE IF ~IsSome(d.containers) THEN None
    ELSE IF Len(Unwrap(d.containers)) = 0 THEN None
    ELSE IF ~IsSome(Unwrap(d.containers)[1]) THEN None
    ELSE
      LET ann == Unwrap(d.annotations)
          img == Unwrap(Unwrap(d.containers)[1])
          splits == Splitn2(img)
          container == splits[1]
          version == IF Len(splits) = 2 THEN splits[2] ELSE S_latest
      IN IF \E k \in RequiredKeys : k \notin DOMAIN ann THEN None
         ELSE Some(
           [ name |-> d.name,
             namespace |-> Unwrap(d.namespace),
             annotations |-> ann,
             container |-> container,
             version |-> version,
             config |->
               [ enabled |-> UnwrapOr(ParseBool(Trim(ann["enabled"])), FALSE),
                 namespace |-> Unwrap(d.namespace),
                 app_repository |-> ann["app_repository"],
                 manifest_repository |-> ann["manifest_repository"],
                 image_name |-> ann["image_name"],
                 deployment_path |-> ann["deployment_path"],
                 observe_branch |-> UnwrapOr(AnnGet(ann, "observe_branch"), S_master),
                 tag_type |-> NormTagType(UnwrapOr(AnnGet(ann, "tag_type"), S_long)),
                 ssh_key_name |-> ann["ssh_key_name"],
                 ssh_key_namespace |-> ann["ssh_key_namespace"],
                 notifications |-> UnwrapOr(ParseBool(Trim(ann["notifications"])), FALSE) ] ])

\* format!("/tmp/app-{}-{}", name, observe_branch)
AppRepoPath(entry) == S_tmp_app \o entry.name \o S_dash \o entry.config.observe_branch
\* a variant that names the application clone directory
ManifestRepoPath_AppDir(entry) ==
    S_tmp_app \o entry.name \o S_dash \o entry.config.observe_branch

\* format!("/tmp/manifest-{}-{}", name, observe_branch)
ManifestRepoPath(entry) == S_tmp_manifest \o entry.name \o S_dash \o entry.config.observe_branch

\* the entry of every Deployment of the universe, computed once
Entries == [i \in DepIds |-> deployment_to_entry(Universe[i])]
EntryOf(i) == Entries[i]
Paths ==
    UNION { {AppRepoPath(Unwrap(EntryOf(i))), ManifestRepoPath(Unwrap(EntryOf(i)))} :
            i \in {j \in DepIds : IsSome(EntryOf(j))} }


(* ------------------------- files and commits -------------------------- *)
\* the manifest file of a tree or working directory
NoFile == [kind |-> "absent", images |-> <<>>]
BadYaml == [kind |-> "invalid", images |-> <<>>]
Manifest(images) == [kind |-> "deployment", images |-> images]

CommitMessage == "chore(refs): gitops-operator updating image tags"
MergeMessage == "Merge"

Branches == {S_master, S_dev}

MkCommit(parents, tree, msg) == [parents |-> parents, tree |-> tree, msg |-> msg]

RECURSIVE AncestorsOf(_, _)
AncestorsOf(cs, c) ==
    IF c = 0 THEN {}
    ELSE {c} \cup UNION {AncestorsOf(cs, cs[c].parents[i]) : i \in 1..Len(cs[c].parents)}

IsAncestor(cs, a, b) == a \in AncestorsOf(cs, b)

SetMax(S) == CHOOSE x \in S : \A y \in S : y <= x

\* git merge-base: 0 when the histories are unrelated
MergeBase(cs, a, b) ==
    LET common == AncestorsOf(cs, a) \cap AncestorsOf(cs, b)
    IN IF common = {} THEN 0 ELSE SetMax(common)

\* repo.merge_trees(ancestor, local, remote) on the one tracked file
MergeConflicts(base, ours, theirs) == ours # theirs /\ ours # base /\ theirs # base
MergeTrees(base, ours, theirs) == IF ours = base THEN theirs ELSE ours

\* commit_id.to_string(): ShaLen hex digits, different for every commit
ShaTable == [c \in 1..Len(Hex) |-> [i \in 1..ShaLen |-> Hex[c]]]
ShaOf(c) == ShaTable[c]

(* --------------------------- files.rs --------------------------------- *)
\* get_deployment_from_file: the parsed container images, None on a read or parse error
get_deployment_from_file(file) == IF file.kind = "deployment" THEN Some(file.images) ELSE None

\* a container of the parsed Deployment that has no image field
NoImage == <<"<none>">>

\* image.as_ref().unwrap() on None: the call does not return, the caller unwinds
Panic == <<"panic", "called Option::unwrap() on a None value">>

\* the first container at which the loop of needs_patching and of
\* patch_deployment stops: one without image, or one whose image contains
\* new_sha; 0 when the loop runs to its end
FirstStop(images, new_sha) ==
    LET stops == {k \in 1..Len(images) :
                    images[k] = NoImage \/ Contains(images[k], new_sha)}
    IN IF stops = {} THEN 0 ELSE CHOOSE k \in stops : \A j \in stops : k <= j

\* needs_patching: None models Err, Panic the unwrap of a missing image
needs_patching(file, new_sha) ==
    LET d == get_deployment_from_file(file)
    IN IF ~IsSome(d) THEN None
       ELSE LET k == FirstStop(Unwrap(d), new_sha)
            IN IF k = 0 THEN Some(TRUE)
               ELSE IF Unwrap(d)[k] = NoImage THEN Panic
               ELSE Some(FALSE)

\* a variant that rewrites the image of every container
PatchedImages_All(images, image_name, new_sha) ==
    [i \in 1..Len(images) |-> ImageRef(image_name, new_sha)]

\* the images patch_deployment serializes when no container stops the loop
PatchedImages(images, image_name, new_sha) ==
    [i \in 1..Len(images) |->
        IF Contains(images[i], image_name) THEN ImageRef(image_name, new_sha) ELSE images[i]]

\* how fs::write(file_path, ..) may end: done, refused when the file is opened,
\* or failed after the file was truncated
WriteOutcomes == {"ok", "refused", "torn"}

PatchResult(ok, file, wrote, panic) ==
    [ok |-> ok, file |-> file, wrote |-> wrote, panic |-> panic]

\* a variant that saves the containers it has rewritten before it gives up
patch_deployment_SavesFirst(file, image_name, new_sha, write) ==
    LET d == get_deployment_from_file(file)
    IN IF ~IsSome(d) THEN PatchResult(FALSE, file, FALSE, FALSE)
       ELSE LET k == FirstStop(Unwrap(d), new_sha)
                saved == Manifest(PatchedImages(Unwrap(d), image_name, new_sha))
            IN IF k # 0
               THEN PatchResult(FALSE, saved, FALSE, Unwrap(d)[k] = NoImage)
               ELSE IF write = "refused" THEN PatchResult(FALSE, file, FALSE, FALSE)
               ELSE IF write = "torn" THEN PatchResult(FALSE, BadYaml, TRUE, FALSE)
               ELSE PatchResult(TRUE, saved, TRUE, FALSE)

\* patch_deployment: Ok or Err, the file as the call leaves it, whether the
\* file was opened for writing, whether the call panicked
patch_deployment(file, image_name, new_sha, write) ==
    LET d == get_deployment_from_file(file)
    IN IF ~IsSome(d) THEN PatchResult(FALSE, file, FALSE, FALSE)
       ELSE LET k == FirstStop(Unwrap(d), new_sha)
            IN IF k # 0
               THEN PatchResult(FALSE, file, FALSE, Unwrap(d)[k] = NoImage)
               ELSE IF write = "refused" THEN PatchResult(FALSE, file, FALSE, FALSE)
               ELSE IF write = "torn" THEN PatchResult(FALSE, BadYaml, TRUE, FALSE)
               ELSE PatchResult(TRUE,
                        Manifest(PatchedImages(Unwrap(d), image_name, new_sha)),
                        TRUE, FALSE)

(* ---------------------------- git.rs ---------------------------------- *)
NoDir ==
    [exists |-> FALSE, origin |-> <<>>, attached |-> TRUE, det |-> 0, master |-> 0,
     rt |-> [b \in Branches |-> 0], wt |-> NoFile, index_conflicts |-> FALSE]

\* the commit HEAD resolves to
HeadOf(dir) == IF dir.attached THEN dir.master ELSE dir.det

\* repo.commit(Some("HEAD"), ...): HEAD, or the branch it points to, moves to c
AdvanceHead(dir, c) == IF dir.attached THEN [dir EXCEPT !.master = c] ELSE [dir EXCEPT !.det = c]

\* clone_new_repo: RepoBuilder::clone checks out the remote's default branch
clone_new_repo(cs, url, remoteRefs) ==
    [exists |-> TRUE, origin |-> url, attached |-> TRUE, det |-> 0,
     master |-> remoteRefs[S_master], rt |-> remoteRefs,
     wt |-> cs[remoteRefs[S_master]].tree, index_conflicts |-> FALSE]

\* fetch_existing_repo: refs/heads/{branch}:refs/remotes/origin/{branch}
fetch_existing_repo(dir, remoteRefs, branch) ==
    [dir EXCEPT !.rt[branch] = remoteRefs[branch]]

\* repo.merge_analysis(&[fetch_commit])
MergeAnalysis(cs, dir, f) ==
    IF IsAncestor(cs, f, HeadOf(dir)) THEN "up_to_date"
    ELSE IF IsAncestor(cs, HeadOf(dir), f) THEN "fast_forward"
    ELSE "normal"


GitResult(ok, dir, cs) == [ok |-> ok, dir |-> dir, cs |-> cs]

\* repo.checkout_index(Some(&mut idx), None) on a merged index with conflicts:
\* markers says whether the checkout rewrote the file; when it did, the file
\* carries conflict markers and the repository index the conflict entries
checkout_conflicts(dir, markers) ==
    IF markers THEN [dir EXCEPT !.wt = BadYaml, !.index_conflicts = TRUE] ELSE dir

\* a variant that commits the merge although the merged index has conflicts
normal_merge_CommitsConflicts(cs, dir, f, sigOk, markers) ==
    LET h == HeadOf(dir)
        base == MergeBase(cs, h, f)
        new == Len(cs) + 1
    IN IF base = 0 THEN GitResult(FALSE, dir, cs)
       ELSE IF ~sigOk THEN GitResult(FALSE, dir, cs)
       ELSE LET merged == MergeTrees(cs[base].tree, cs[h].tree, cs[f].tree)
            IN GitResult(TRUE,
                 [AdvanceHead(dir, new) EXCEPT !.wt = IF dir.wt = cs[h].tree THEN merged ELSE @],
                 Append(cs, MkCommit(<<h, f>>, merged, MergeMessage)))

\* normal_merge
normal_merge(cs, dir, f, sigOk, markers) ==
    LET h == HeadOf(dir)
        base == MergeBase(cs, h, f)
        new == Len(cs) + 1
    IN IF base = 0 THEN GitResult(FALSE, dir, cs)
       ELSE IF MergeConflicts(cs[base].tree, cs[h].tree, cs[f].tree)
            THEN GitResult(TRUE, checkout_conflicts(dir, markers), cs)
       ELSE IF ~sigOk THEN GitResult(FALSE, dir, cs)
       ELSE LET merged == MergeTrees(cs[base].tree, cs[h].tree, cs[f].tree)
            IN GitResult(TRUE,
                 [AdvanceHead(dir, new) EXCEPT !.wt = IF dir.wt = cs[h].tree THEN merged ELSE @],
                 Append(cs, MkCommit(<<h, f>>, merged, MergeMessage)))

\* the fast-forward arm of pull_repo: refs/remotes/origin/master is set to
\* the fetched commit, HEAD to what that ref names, the tree is checked out
fast_forward(cs, dir, f) ==
    IF dir.rt[S_master] = 0 THEN GitResult(FALSE, dir, cs)
    ELSE GitResult(TRUE,
           [dir EXCEPT !.rt[S_master] = f, !.attached = FALSE, !.det = f,
                       !.wt = cs[f].tree], cs)

\* a variant that moves the ref of the branch that was fetched
pull_on_BranchRef(analysis, cs, dir, f, branch, sigOk, markers) ==
    IF analysis = "fast_forward"
    THEN IF dir.rt[branch] = 0 THEN GitResult(FALSE, dir, cs)
         ELSE GitResult(TRUE,
                [dir EXCEPT !.rt[branch] = f, !.attached = FALSE, !.det = f,
                            !.wt = cs[f].tree], cs)
    ELSE IF analysis = "normal" THEN normal_merge(cs, dir, f, sigOk, markers)
    ELSE IF analysis = "up_to_date" THEN GitResult(TRUE, dir, cs)
    ELSE GitResult(FALSE, dir, cs)

\* the arms of pull_repo on the result of merge_analysis
pull_on(analysis, cs, dir, f, branch, sigOk, markers) ==
    IF analysis = "fast_forward" THEN fast_forward(cs, dir, f)
    ELSE IF analysis = "normal" THEN normal_merge(cs, dir, f, sigOk, markers)
    ELSE IF analysis = "up_to_date" THEN GitResult(TRUE, dir, cs)
    ELSE GitResult(FALSE, dir, cs)

\* pull_repo: f is the commit FETCH_HEAD names
pull_repo(cs, dir, f, branch, sigOk, markers) ==
    pull_on(MergeAnalysis(cs, dir, f), cs, dir, f, branch, sigOk, markers)

\* a directory that exists and holds no repository
PlainDir == [NoDir EXCEPT !.exists = TRUE]

\* Repository::open(&repo_path) succeeds
IsRepository(dir) == dir.exists /\ dir.origin # <<>>

\* a variant that clones whenever the path holds no repository
clone_or_update_repo_CloneOver(cs, dir, url, remoteRefs, branch, netOk, sigOk, markers) ==
    IF IsRepository(dir)
    THEN IF ~netOk \/ remoteRefs[branch] = 0 THEN GitResult(FALSE, dir, cs)
         ELSE pull_repo(cs, fetch_existing_repo(dir, remoteRefs, branch),
                        remoteRefs[branch], branch, sigOk, markers)
    ELSE IF ~netOk \/ remoteRefs[S_master] = 0 THEN GitResult(FALSE, dir, cs)
         ELSE GitResult(TRUE, clone_new_repo(cs, url, remoteRefs), cs)

\* clone_or_update_repo: remoteRefs are the branches of the repository the
\* transfer talks to (the directory's origin when it exists, else url)
clone_or_update_repo(cs, dir, url, remoteRefs, branch, netOk, sigOk, markers) ==
    IF dir.exists
    THEN IF ~IsRepository(dir) THEN GitResult(FALSE, dir, cs)
         ELSE IF ~netOk \/ remoteRefs[branch] = 0 THEN GitResult(FALSE, dir, cs)
         ELSE pull_repo(cs, fetch_existing_repo(dir, remoteRefs, branch),
                        remoteRefs[branch], branch, sigOk, markers)
    ELSE IF ~netOk \/ remoteRefs[S_master] = 0 THEN GitResult(FALSE, dir, cs)
         ELSE GitResult(TRUE, clone_new_repo(cs, url, remoteRefs), cs)

PushResult(ok, dir, cs, refs, committed, pushed) ==
    [ok |-> ok, dir |-> dir, cs |-> cs, refs |-> refs, committed |-> committed,
     pushed |-> pushed]

\* a variant that talks to the remote before it commits
stage_and_push_changes_PushFirst(cs, dir, remoteRefs, commit_message, netOk) ==
    IF dir.index_conflicts THEN PushResult(TRUE, dir, cs, remoteRefs, FALSE, FALSE)
    ELSE IF HeadOf(dir) = 0 THEN PushResult(FALSE, dir, cs, remoteRefs, FALSE, FALSE)
    ELSE IF ~netOk THEN PushResult(FALSE, dir, cs, remoteRefs, FALSE, FALSE)
    ELSE
      LET new == Len(cs) + 1
          cs1 == Append(cs, MkCommit(<<HeadOf(dir)>>, dir.wt, commit_message))
          dir1 == AdvanceHead(dir, new)
          loid == dir1.master
          roid == remoteRefs[S_master]
      IN IF loid = roid THEN PushResult(TRUE, dir1, cs1, remoteRefs, TRUE, FALSE)
         ELSE IF IsAncestor(cs1, roid, loid)
              THEN PushResult(TRUE, [dir1 EXCEPT !.rt[S_master] = loid], cs1,
                              [remoteRefs EXCEPT ![S_master] = loid], TRUE, TRUE)
         ELSE PushResult(FALSE, dir1, cs1, remoteRefs, TRUE, FALSE)

\* stage_and_push_changes: add_all, commit on HEAD, push refs/heads/master
stage_and_push_changes(cs, dir, remoteRefs, commit_message, netOk) ==
    IF dir.index_conflicts THEN PushResult(TRUE, dir, cs, remoteRefs, FALSE, FALSE)
    ELSE IF HeadOf(dir) = 0 THEN PushResult(FALSE, dir, cs, remoteRefs, FALSE, FALSE)
    ELSE
      LET new == Len(cs) + 1
          cs1 == Append(cs, MkCommit(<<HeadOf(dir)>>, dir.wt, commit_message))
          dir1 == AdvanceHead(dir, new)
          loid == dir1.master
          roid == remoteRefs[S_master]
      IN IF ~netOk THEN PushResult(FALSE, dir1, cs1, remoteRefs, TRUE, FALSE)
         ELSE IF loid = roid THEN PushResult(TRUE, dir1, cs1, remoteRefs, TRUE, FALSE)
         ELSE IF IsAncestor(cs1, roid, loid)
              THEN PushResult(TRUE, [dir1 EXCEPT !.rt[S_master] = loid], cs1,
                              [remoteRefs EXCEPT ![S_master] = loid], TRUE, TRUE)
         ELSE PushResult(FALSE, dir1, cs1, remoteRefs, TRUE, FALSE)

\* a variant that commits and leaves the push out
commit_changes_LocalOnly(cs, dir, remoteRefs, netOk) ==
    IF ~dir.exists \/ HeadOf(dir) = 0 THEN PushResult(FALSE, dir, cs, remoteRefs, FALSE, FALSE)
    ELSE PushResult(TRUE, AdvanceHead(dir, Len(cs) + 1),
                    Append(cs, MkCommit(<<HeadOf(dir)>>, dir.wt, CommitMessage)),
                    remoteRefs, TRUE, FALSE)

\* commit_changes: Repository::open, then stage_and_push_changes with the fixed message
commit_changes(cs, dir, remoteRefs, netOk) ==
    IF ~dir.exists THEN PushResult(FALSE, dir, cs, remoteRefs, FALSE, FALSE)
    ELSE stage_and_push_changes(cs, dir, remoteRefs, CommitMessage, netOk)

\* a variant that keeps one character more in short mode
get_latest_commit_Short8(dir, branch, tag_type, netOk) ==
    IF ~dir.exists THEN None
    ELSE IF ~netOk THEN None
    ELSE IF dir.rt[branch] = 0 THEN None
    ELSE IF tag_type = S_short THEN Some(SubSeq(ShaOf(dir.rt[branch]), 1, ShortShaLen + 1))
    ELSE IF tag_type = S_long THEN Some(ShaOf(dir.rt[branch]))
    ELSE None

\* get_latest_commit: None models Err
get_latest_commit(dir, branch, tag_type, netOk) ==
    IF ~dir.exists THEN None
    ELSE IF ~netOk THEN None
    ELSE IF dir.rt[branch] = 0 THEN None
    ELSE IF tag_type = S_short THEN Some(SubSeq(ShaOf(dir.rt[branch]), 1, ShortShaLen))
    ELSE IF tag_type = S_long THEN Some(ShaOf(dir.rt[branch]))
    ELSE None


(* ------------------------------ state --------------------------------- *)
VARIABLES
    cache,       \* reflector store: the ids of the Deployments it holds
    phase,       \* "idle", or "polling" while a /reconcile request is served
    data,        \* reconcile's data: ids of the Deployments that gave an Entry
    tasks,       \* one process_deployment future per Deployment id
    running,     \* the future that holds the executor between two awaits, or 0
    response,    \* the last /reconcile response (ids of the entries returned)
    fs,          \* the clone directories under /tmp
    remote,      \* the branches of the remote repositories
    commits,     \* the commits that exist, by id
    dispatches,  \* /reconcile requests served so far
    extPushes,   \* third-party pushes so far
    prev,        \* the futures of the previous request, as they ended
    call         \* a function called on its own: its arguments and what it returned

vars ==
    <<cache, phase, data, tasks, running, response, fs, remote, commits,
      dispatches, extPushes, prev, call>>

\* the variables of the operator, which a function called on its own leaves alone
operatorVars ==
    <<cache, phase, data, tasks, running, response, fs, remote, commits,
      dispatches, extPushes, prev>>

\* no function is called on its own while the operator serves requests
NoCall == [op |-> "none"]

Urls == {S_app_url, S_manifest_url}

MsgSshKey == "Failed to get SSH key"
MsgUpToDate == "Deployment is up to date, proceeding to next deployment..."
NoResult == [kind |-> "none", msg |-> ""]
ResultOk == [kind |-> "Ok", msg |-> ""]
ResultErr(msg) == [kind |-> "Err", msg |-> msg]

\* a future that was not created, and the bookkeeping of one that runs
IdleTask ==
    [ pc |-> "none", endpoint |-> FALSE, clone_app |-> "idle", clone_manifest |-> "idle",
      new_sha |-> <<>>, result |-> NoResult,
      key |-> "none", src |-> 0, latest |-> "none", needs |-> "none", probe |-> "none", patch |-> "none",
      commit |-> "none", pre |-> NoFile, wrote |-> FALSE, head_before |-> 0,
      new_commit |-> 0, commits_made |-> 0, pushes |-> 0, transfers |-> 0,
      sent |-> {}, lost |-> {}, cleaned |-> FALSE ]

Entry(i) == Unwrap(EntryOf(i))
Cfg(i) == Entry(i).config

\* store.state().iter().filter_map(deployment_to_entry).collect(), in id order
RECURSIVE Collect(_, _)
Collect(store, i) ==
    IF i > Len(Universe) THEN <<>>
    ELSE IF i \in store /\ IsSome(EntryOf(i)) THEN <<i>> \o Collect(store, i + 1)
    ELSE Collect(store, i + 1)

Range(s) == {s[k] : k \in 1..Len(s)}

\* the file at deployment_path inside a clone directory
ReadFile(dir, deployment_path) ==
    IF dir.exists /\ deployment_path = S_path THEN dir.wt ELSE NoFile

\* the manifest repository starts behind the application head or at it
StaleManifest == Manifest(<<ImageRef(S_app, S_old), ImageRef(S_web, S_old)>>)
FreshManifest == Manifest(<<ImageRef(S_registry \o S_app, ShaOf(1)), ImageRef(S_web, S_old)>>)
InitManifests == {StaleManifest, FreshManifest}

\* what is remembered of a future once its request is answered
Summary(t) == [result |-> t.result, pushes |-> t.pushes, cleaned |-> t.cleaned]

InitCommits ==
    {<< MkCommit(<<>>, NoFile, "app"), MkCommit(<<>>, m, "manifests") >> : m \in InitManifests}

\* everything but the content of the reflector store
InitRest ==
    /\ phase = "idle"
    /\ data = <<>>
    /\ tasks = [i \in DepIds |-> IdleTask]
    /\ prev = [i \in DepIds |-> Summary(IdleTask)]
    /\ running = 0
    /\ response = None
    /\ fs = [p \in Paths |-> NoDir]
    /\ commits \in InitCommits
    /\ remote = [u \in Urls |-> [b \in Branches |-> IF u = S_app_url THEN 1 ELSE 2]]
    /\ dispatches = 0
    /\ extPushes = 0

\* the Deployments that are reconciled alone: the enabled ones of distinct names
SoloIds == {i \in DepIds : IsSome(EntryOf(i)) /\ Cfg(i).enabled
                           /\ \A j \in 1..(i - 1) : Universe[j].name # Universe[i].name}

\* one Deployment in the store: reconciliations of one entry, one request after another
\* the first of them starts behind the application head, the others at it
Init ==
    /\ cache \in {{i} : i \in SoloIds}
    /\ call = NoCall
    /\ InitRest
    /\ commits[2].tree = (IF cache = {1} THEN StaleManifest ELSE FreshManifest)

\* any store of at most MaxCache Deployments: one request, its entries side by side
InitDispatch ==
    /\ cache \in {c \in SUBSET DepIds : Cardinality(c) <= MaxCache}
    /\ call = NoCall
    /\ InitRest

(* ------------------- configuration.rs: reconcile ---------------------- *)

\* GET /reconcile: snapshot the store, create one future per enabled entry
ReconcileStart ==
    /\ phase = "idle"
    /\ dispatches < MaxDispatch
    /\ data' = Collect(cache, 1)
    /\ tasks' =
         [i \in DepIds |->
            IF i \in Range(Collect(cache, 1)) /\ Cfg(i).enabled
            THEN [IdleTask EXCEPT !.pc = "endpoint",
                                  !.src = remote[Cfg(i).app_repository][Cfg(i).observe_branch]]
            ELSE IdleTask]
    /\ phase' = "polling"
    /\ response' = None
    /\ UNCHANGED <<call, cache, running, fs, remote, commits, dispatches, extPushes, prev>>

\* a join that is over as soon as one of the futures is
ReconcileEnd_FirstDone ==
    /\ phase = "polling"
    /\ \E i \in DepIds : tasks[i].pc = "done"
    /\ response' = Some(data)
    /\ phase' = "idle"
    /\ dispatches' = dispatches + 1
    /\ prev' = [i \in DepIds |-> Summary(tasks[i])]
    /\ tasks' = [i \in DepIds |-> IdleTask]
    /\ UNCHANGED <<call, cache, data, running, fs, remote, commits, extPushes>>

\* join_all(handles).await is over: Json(data)
ReconcileEnd ==
    /\ phase = "polling"
    /\ \A i \in DepIds : tasks[i].pc \in {"none", "done"}
    /\ response' = Some(data)
    /\ phase' = "idle"
    /\ dispatches' = dispatches + 1
    /\ prev' = [i \in DepIds |-> Summary(tasks[i])]
    /\ tasks' = [i \in DepIds |-> IdleTask]
    /\ UNCHANGED <<call, cache, data, running, fs, remote, commits, extPushes>>

(* --------------- configuration.rs: process_deployment ----------------- *)
\* whether the code sends to the webhook
Notifies(i) == ~Cfg(i).notifications /\ tasks[i].endpoint

\* get_notifications_endpoint(..).await.unwrap_or("")
GetEndpoint(i) ==
    /\ tasks[i].pc = "endpoint"
    /\ running = 0
    /\ \E found \in BOOLEAN :
         tasks' = [tasks EXCEPT ![i].endpoint = found, ![i].pc = "ssh_key"]
    /\ UNCHANGED <<call, cache, phase, data, running, response, fs, remote, commits,
                   dispatches, extPushes, prev>>

\* GetSshKey with the failure only logged: the clones start without a key
GetSshKey_KeepsGoing(i) ==
    /\ tasks[i].pc = "ssh_key"
    /\ running = 0
    /\ \E ok \in BOOLEAN :
         tasks' = [tasks EXCEPT ![i].pc = "cloning",
                                ![i].key = IF ok THEN "ok" ELSE "err",
                                ![i].clone_app = "running",
                                ![i].clone_manifest = "running"]
    /\ UNCHANGED <<call, cache, phase, data, running, response, fs, remote, commits,
                   dispatches, extPushes, prev>>

\* get_ssh_key(..).await, then the two spawn_blocking clones
GetSshKey(i) ==
    /\ tasks[i].pc = "ssh_key"
    /\ running = 0
    /\ \E ok \in BOOLEAN :
         tasks' =
           IF ok
           THEN [tasks EXCEPT ![i].pc = "cloning", ![i].key = "ok",
                              ![i].clone_app = "running",
                              ![i].clone_manifest = "running"]
           ELSE [tasks EXCEPT ![i].pc = "done", ![i].key = "err",
                              ![i].result = ResultErr(MsgSshKey)]
    /\ UNCHANGED <<call, cache, phase, data, running, response, fs, remote, commits,
                   dispatches, extPushes, prev>>

\* clone_repo on a blocking thread; its error is only logged
CloneInto(i, path, url, app) ==
    LET dir == fs[path]
        refs == remote[IF dir.exists THEN dir.origin ELSE url]
    IN \E netOk \in BOOLEAN, sigOk \in BOOLEAN, markers \in BOOLEAN :
         LET r == clone_or_update_repo(commits, dir, url, refs, Cfg(i).observe_branch,
                                       netOk, sigOk, markers)
         IN /\ Len(r.cs) <= MaxCommits
            /\ fs' = [fs EXCEPT ![path] = r.dir]
            /\ commits' = r.cs
            /\ tasks' = IF app
                        THEN [tasks EXCEPT ![i].clone_app = "done", ![i].transfers = 1]
                        ELSE [tasks EXCEPT ![i].clone_manifest = "done", ![i].transfers = 1]

CloneApp(i) ==
    /\ tasks[i].clone_app = "running"
    /\ CloneInto(i, AppRepoPath(Entry(i)), Cfg(i).app_repository, TRUE)
    /\ UNCHANGED <<call, cache, phase, data, running, response, remote, dispatches,
                   extPushes, prev>>

CloneManifest(i) ==
    /\ tasks[i].clone_manifest = "running"
    /\ CloneInto(i, ManifestRepoPath(Entry(i)), Cfg(i).manifest_repository, FALSE)
    /\ UNCHANGED <<call, cache, phase, data, running, response, remote, dispatches,
                   extPushes, prev>>


\* the application commits whose image the registry holds: the first one is
\* built, a commit pushed later is still building
Registry == {1}

\* registry.rs check_image: whether the registry holds image:tag
check_image(image, tag) ==
    \E c \in Registry : tag = ShaOf(c) \/ tag = SubSeq(ShaOf(c), 1, ShortShaLen)

\* a join that is over as soon as one of the two clones has returned
ClonesJoined_First(i) == tasks[i].clone_app = "done" \/ tasks[i].clone_manifest = "done"

\* tokio::try_join!(app_clone, manifest_clone): clone_repo returns () whatever
\* clone_or_update_repo gave, so the join waits for both blocking tasks
ClonesJoined(i) == tasks[i].clone_app = "done" /\ tasks[i].clone_manifest = "done"

\* after try_join!: get_latest_commit, needs_patching and patch_deployment,
\* up to the next await or to commit_changes; probe records what the registry
\* would answer for image_name:new_sha, which the code does not ask; a panic
\* unwinds through join_all and the request is never answered
Decide(i) ==
    /\ tasks[i].pc = "cloning"
    /\ ClonesJoined(i)
    /\ running = 0
    /\ \E netOk \in BOOLEAN, write \in WriteOutcomes :
         LET mpath == ManifestRepoPath(Entry(i))
             latest == get_latest_commit(fs[AppRepoPath(Entry(i))], Cfg(i).observe_branch,
                                         Cfg(i).tag_type, netOk)
             new_sha == UnwrapOr(latest, S_latest)
             file == ReadFile(fs[mpath], Cfg(i).deployment_path)
             np == needs_patching(file, new_sha)
             p == patch_deployment(file, Cfg(i).image_name, new_sha, write)
             seen == [tasks[i] EXCEPT
                        !.new_sha = new_sha,
                        !.latest = IF IsSome(latest) THEN "ok" ELSE "err",
                        !.needs = IF np = Panic THEN "panic"
                                  ELSE IF ~IsSome(np) THEN "err"
                                  ELSE IF Unwrap(np) THEN "true" ELSE "false",
                        !.probe = IF check_image(Cfg(i).image_name, new_sha)
                                  THEN "present" ELSE "absent",
                        !.pre = file]
         IN IF np = Panic
            THEN /\ fs' = fs
                 /\ tasks' = [tasks EXCEPT ![i] =
                       [seen EXCEPT !.pc = "panicked",
                                    !.result = [kind |-> "panic", msg |-> ""]]]
                 /\ running' = 0
            ELSE IF UnwrapOr(np, FALSE)
            THEN /\ fs' = [fs EXCEPT ![mpath].wt = IF p.wrote THEN p.file ELSE @]
                 /\ tasks' = [tasks EXCEPT ![i] =
                       [seen EXCEPT !.patch = IF p.ok THEN "ok" ELSE "err",
                                    !.wrote = p.wrote,
                                    !.pc = IF ~p.ok /\ Notifies(i) THEN "notify_failure"
                                           ELSE "commit"]]
                 /\ running' = IF ~p.ok /\ Notifies(i) THEN 0 ELSE i
            ELSE /\ fs' = fs
                 /\ tasks' = [tasks EXCEPT ![i] =
                       [seen EXCEPT !.pc = "done", !.result = ResultErr(MsgUpToDate)]]
                 /\ running' = 0
    /\ UNCHANGED <<call, cache, phase, data, response, remote, commits, dispatches,
                   extPushes, prev>>

\* a variant in which a notification that cannot be sent ends the future
NotifyFailure_Aborts(i) ==
    /\ tasks[i].pc = "notify_failure"
    /\ running = 0
    /\ \E delivered \in BOOLEAN :
         tasks' = [tasks EXCEPT ![i].sent = IF delivered THEN @ \cup {"failed"} ELSE @,
                                ![i].lost = IF delivered THEN @ ELSE @ \cup {"failed"},
                                ![i].pc = IF delivered THEN "commit" ELSE "done",
                                ![i].result = IF delivered THEN @
                                              ELSE ResultErr("Failed to send notification")]
         /\ running' = IF delivered THEN i ELSE 0
    /\ UNCHANGED <<call, cache, phase, data, response, fs, remote, commits, dispatches,
                   extPushes, prev>>

\* send_notification("Failed to patch deployment ...").await; an Err is only logged
NotifyFailure(i) ==
    /\ tasks[i].pc = "notify_failure"
    /\ running = 0
    /\ \E delivered \in BOOLEAN :
         tasks' = [tasks EXCEPT ![i].sent = IF delivered THEN @ \cup {"failed"} ELSE @,
                                ![i].lost = IF delivered THEN @ ELSE @ \cup {"failed"},
                                ![i].pc = "commit"]
    /\ running' = i
    /\ UNCHANGED <<call, cache, phase, data, response, fs, remote, commits, dispatches,
                   extPushes, prev>>

\* a variant that leaves the directory as the failed commit_changes left it
AfterCommit_KeepsDir(r) == r.dir

\* the manifest clone directory after commit_changes: on Err,
\* remove_dir_all(&manifest_repo_path)
AfterCommit(r) == IF r.ok THEN r.dir ELSE NoDir

\* a variant that calls commit_changes a second time when the first call fails
Commit_Retry(i) ==
    /\ tasks[i].pc = "commit"
    /\ running = i
    /\ \E netOk \in BOOLEAN :
         LET mpath == ManifestRepoPath(Entry(i))
             mdir == fs[mpath]
             url == IF mdir.exists THEN mdir.origin ELSE Cfg(i).manifest_repository
             r == commit_changes(commits, mdir, remote[url], netOk)
         IN /\ r.ok => Len(r.cs) <= MaxCommits
            /\ fs' = [fs EXCEPT ![mpath] = AfterCommit(r)]
            /\ commits' = IF r.ok THEN r.cs ELSE commits
            /\ remote' = [remote EXCEPT ![url] = IF r.ok THEN r.refs ELSE @]
            /\ tasks' = [tasks EXCEPT ![i] =
                 [@ EXCEPT !.commit = IF r.ok THEN "ok" ELSE "err",
                           !.head_before = HeadOf(mdir),
                           !.new_commit = IF r.committed THEN Len(commits) + 1 ELSE 0,
                           !.commits_made = IF r.committed THEN @ + 1 ELSE @,
                           !.pushes = IF r.pushed THEN @ + 1 ELSE @,
                           !.cleaned = ~r.ok,
                           !.pc = IF ~r.ok /\ tasks[i].commit = "none" THEN "commit"
                                  ELSE IF Notifies(i) THEN "notify_success" ELSE "done",
                           !.result = IF (~r.ok /\ tasks[i].commit = "none") \/ Notifies(i)
                                      THEN @ ELSE ResultOk]]
            /\ running' = IF ~r.ok /\ tasks[i].commit = "none" THEN i ELSE 0
    /\ UNCHANGED <<call, cache, phase, data, response, dispatches, extPushes, prev>>

\* commit_changes, remove_dir_all when it fails, up to the next await or the return
Commit(i) ==
    /\ tasks[i].pc = "commit"
    /\ running = i
    /\ \E netOk \in BOOLEAN :
         LET mpath == ManifestRepoPath(Entry(i))
             mdir == fs[mpath]
             url == IF mdir.exists THEN mdir.origin ELSE Cfg(i).manifest_repository
             r == commit_changes(commits, mdir, remote[url], netOk)
         IN /\ r.ok => Len(r.cs) <= MaxCommits
            /\ fs' = [fs EXCEPT ![mpath] = AfterCommit(r)]
            /\ commits' = IF r.ok THEN r.cs ELSE commits
            /\ remote' = [remote EXCEPT ![url] = IF r.ok THEN r.refs ELSE @]
            /\ tasks' = [tasks EXCEPT ![i] =
                 [@ EXCEPT !.commit = IF r.ok THEN "ok" ELSE "err",
                           !.head_before = HeadOf(mdir),
                           !.new_commit = IF r.committed THEN Len(commits) + 1 ELSE 0,
                           !.commits_made = IF r.committed THEN @ + 1 ELSE @,
                           !.pushes = IF r.pushed THEN @ + 1 ELSE @,
                           !.cleaned = ~r.ok,
                           !.pc = IF Notifies(i) THEN "notify_success" ELSE "done",
                           !.result = IF Notifies(i) THEN @ ELSE ResultOk]]
    /\ running' = 0
    /\ UNCHANGED <<call, cache, phase, data, response, dispatches, extPushes, prev>>

\* send_notification("... has been patched successfully ...").await, then Ok(())
NotifySuccess(i) ==
    /\ tasks[i].pc = "notify_success"
    /\ running = 0
    /\ \E delivered \in BOOLEAN :
         tasks' = [tasks EXCEPT ![i].sent = IF delivered THEN @ \cup {"patched"} ELSE @,
                                ![i].lost = IF delivered THEN @ ELSE @ \cup {"patched"},
                                ![i].pc = "done",
                                ![i].result = ResultOk]
    /\ UNCHANGED <<call, cache, phase, data, running, response, fs, remote, commits,
                   dispatches, extPushes, prev>>

(* --------------------------- environment ------------------------------ *)
\* a developer pushes a commit to a branch of the application repository
AppPush(b) ==
    /\ extPushes < MaxExtPush
    /\ Len(commits) < MaxCommits
    /\ commits' = Append(commits, MkCommit(<<remote[S_app_url][b]>>, NoFile, "app"))
    /\ remote' = [remote EXCEPT ![S_app_url][b] = Len(commits) + 1]
    /\ extPushes' = extPushes + 1
    /\ UNCHANGED <<call, cache, phase, data, tasks, running, response, fs, dispatches, prev>>

\* what a third party may make of the manifest file
ExtEdits(tree) ==
    {tree} \cup
    (IF tree.kind = "deployment"
     THEN {Manifest([tree.images EXCEPT ![1] = ImageRef(S_app, S_ext)])}
     ELSE {})

\* a third party pushes a commit to a branch of the manifest repository
ManifestPush(b) ==
    /\ extPushes < MaxExtPush
    /\ Len(commits) < MaxCommits
    /\ \E t \in ExtEdits(commits[remote[S_manifest_url][b]].tree) :
         commits' = Append(commits, MkCommit(<<remote[S_manifest_url][b]>>, t, "manifests"))
    /\ remote' = [remote EXCEPT ![S_manifest_url][b] = Len(commits) + 1]
    /\ extPushes' = extPushes + 1
    /\ UNCHANGED <<call, cache, phase, data, tasks, running, response, fs, dispatches, prev>>

\* the branches the entries of the store observe
Observed == {Cfg(i).observe_branch : i \in {j \in cache : IsSome(EntryOf(j))}}

Pipeline(i) ==
    \/ GetEndpoint(i)
    \/ GetSshKey(i)
    \/ CloneApp(i)
    \/ CloneManifest(i)
    \/ Decide(i)
    \/ NotifyFailure(i)
    \/ Commit(i)
    \/ NotifySuccess(i)

Next ==
    \/ ReconcileStart
    \/ ReconcileEnd
    \/ \E i \in DepIds : Pipeline(i)
    \/ \E b \in Observed : AppPush(b)
    \/ \E b \in Observed \cup {S_master} : ManifestPush(b)

Spec == Init /\ [][Next]_vars

\* one request over a store of several Deployments
DispatchOnce == dispatches = 0 /\ ReconcileStart

NextDispatch ==
    \/ DispatchOnce
    \/ ReconcileEnd
    \/ \E i \in DepIds : Pipeline(i)

SpecDispatch == InitDispatch /\ [][NextDispatch]_vars

(* ------- reconciliations of one entry when nothing around it fails ----- *)
\* the entry that observes master and tags with the full commit id
LiveId == 1

\* the store holds the one entry; the manifest is behind the application head
\* or already at it
InitLive ==
    /\ cache = {LiveId}
    /\ call = NoCall
    /\ InitRest

\* the step left no failure behind: the key was read, a clone that returned
\* left a repository that tracks the head of its remote, the commit id was
\* found, the file was written, and a push failed only because the remote
\* had moved
Healthy ==
    LET t == tasks'[LiveId]
        app == fs'[AppRepoPath(Entry(LiveId))]
        man == fs'[ManifestRepoPath(Entry(LiveId))]
        b == Cfg(LiveId).observe_branch
    IN /\ t.key # "err"
       /\ (tasks[LiveId].clone_app # "done" /\ t.clone_app = "done") =>
             app.exists /\ app.rt[b] = remote[Cfg(LiveId).app_repository][b]
       /\ (tasks[LiveId].clone_manifest # "done" /\ t.clone_manifest = "done") =>
             man.exists /\ man.rt[b] = remote[Cfg(LiveId).manifest_repository][b]
       /\ t.latest # "err" /\ t.needs \notin {"err", "panic"}
       /\ t.patch # "err"
       /\ (tasks[LiveId].pc = "commit" /\ t.commit = "err") =>
             ~IsAncestor(commits, remote[S_manifest_url][S_master],
                         HeadOf(fs[ManifestRepoPath(Entry(LiveId))]))

\* a third party pushes a commit that leaves the manifest file as it is
UnrelatedManifestPush ==
    /\ ManifestPush(S_master)
    /\ commits'[Len(commits')].tree = commits[remote[S_manifest_url][S_master]].tree

\* the steps of the handler and of the reconciliation, each going well
LiveStep ==
    /\ \/ ReconcileStart
       \/ ReconcileEnd
       \/ GetEndpoint(LiveId)
       \/ GetSshKey(LiveId)
       \/ CloneApp(LiveId)
       \/ CloneManifest(LiveId)
       \/ Decide(LiveId)
       \/ Commit(LiveId)
       \/ NotifySuccess(LiveId)
    /\ Healthy

NextLive ==
    \/ LiveStep
    \/ UnrelatedManifestPush

\* the handler is polled until it returns and the trigger is repeated
SpecLive == InitLive /\ [][NextLive]_vars /\ WF_vars(LiveStep)

(* -------------- deployment_to_entry, called on its own ---------------- *)
S_app_emptytag == S_app \o S_colon
S_reg_port == <<"r","e","g",":","5","0","0","0","/","a","p","p",":","o","l","d">>

\* the annotations an Entry cannot do without, as the documentation lists them
SevenRequired ==
    {"enabled", "app_repository", "manifest_repository", "image_name",
     "deployment_path", "ssh_key_name", "ssh_key_namespace"}

AnnWithOpt(ann, key, o) == IF IsSome(o) THEN AnnWith(ann, key, Unwrap(o)) ELSE ann

EnabledInputs == {S_true, S_false, S_yes, S_true_padded}
TagTypeInputs == {None, Some(S_short), Some(S_long), Some(S_other)}
BranchInputs == {None, Some(S_dev)}

\* every annotation read with `?` is there; enabled and the optional ones vary
FullAnnInputs ==
    { AnnWithOpt(AnnWithOpt(AnnWith(BaseAnn, "enabled", e), "tag_type", t),
                 "observe_branch", b) :
      e \in EnabledInputs, t \in TagTypeInputs, b \in BranchInputs }

\* the same with one of them dropped, and no annotation at all
AnnInputs ==
    FullAnnInputs
    \cup {AnnWithout(a, k) : a \in FullAnnInputs, k \in RequiredKeys}
    \cup {[k \in {} |-> <<>>]}

\* spec or template.spec missing, no container, a first container without
\* image, and images with no, one and two ':'
ContainerInputs ==
    { None, Some(<<>>), Some(<<None>>), Some(<<None, Some(ImageRef(S_app, S_old))>>),
      Some(<<Some(ImageRef(S_app, S_old))>>), Some(<<Some(S_app)>>),
      Some(<<Some(S_app_emptytag)>>), Some(<<Some(S_reg_port), None>>) }

EntryInputs ==
    { MkDeployment(S_app, ns, ann, cs) :
      ns \in {None, Some(S_ns1)},
      ann \in {None} \cup {Some(a) : a \in AnnInputs},
      cs \in ContainerInputs }

\* store.state() of a reflector that holds d and one more Deployment
StoreWith(d) == <<D_web, d>>

\* store.state().iter().filter_map(|d| deployment_to_entry(d)).collect()
RECURSIVE FilterMapEntries(_)
FilterMapEntries(ds) ==
    IF ds = <<>> THEN <<>>
    ELSE LET e == deployment_to_entry(Head(ds))
         IN (IF IsSome(e) THEN <<Unwrap(e)>> ELSE <<>>) \o FilterMapEntries(Tail(ds))

EntryCall(op, d, entry, listing) == [op |-> op, d |-> d, entry |-> entry, listing |-> listing]

InitEntry ==
    /\ call \in {EntryCall("deployment", d, None, <<>>) : d \in EntryInputs}
    /\ cache = {}
    /\ InitRest
    /\ commits[2].tree = StaleManifest

\* deployment_to_entry(&d)
ToEntry ==
    /\ call.op = "deployment"
    /\ call' = EntryCall("deployment_to_entry", call.d, deployment_to_entry(call.d), <<>>)
    /\ UNCHANGED operatorVars

\* GET /debug on a store that holds d
Debug ==
    /\ call.op = "deployment"
    /\ call' = EntryCall("debug", call.d, None, FilterMapEntries(StoreWith(call.d)))
    /\ UNCHANGED operatorVars

\* the data of reconcile, which is also its response, on a store that holds d
ReconcileData ==
    /\ call.op = "deployment"
    /\ call' = EntryCall("reconcile", call.d, None, FilterMapEntries(StoreWith(call.d)))
    /\ UNCHANGED operatorVars

NextEntry ==
    \/ ToEntry
    \/ Debug
    \/ ReconcileData

SpecEntry == InitEntry /\ [][NextEntry]_vars

(* ------- needs_patching and patch_deployment, called on their own ------ *)
\* the tags asked for: a full commit id and its short form
ShaInputs == {ShaOf(3), SubSeq(ShaOf(3), 1, ShortShaLen)}

\* image strings of a container: of the image to patch and of another one,
\* with an old tag and with the tags asked for, and no image field at all
ImageInputs ==
    {ImageRef(S_app, S_old), ImageRef(S_web, S_old), NoImage}
    \cup {ImageRef(S_registry \o S_app, s) : s \in ShaInputs}
    \cup {ImageRef(S_web, s) : s \in ShaInputs}

SeqsUpTo(S, n) == UNION {[1..k -> S] : k \in 0..n}

\* a file that cannot be read, one that does not parse, and Deployments
FileInputs ==
    {NoFile, BadYaml} \cup {Manifest(imgs) : imgs \in SeqsUpTo(ImageInputs, MaxContainers)}

FilesCall(op, file, image_name, new_sha, out) ==
    [op |-> op, file |-> file, image_name |-> image_name, new_sha |-> new_sha, out |-> out]

InitFiles ==
    /\ call \in { FilesCall("file", f, n, s, None) :
                  f \in FileInputs, n \in {S_app, S_web}, s \in ShaInputs }
    /\ cache = {}
    /\ InitRest
    /\ commits[2].tree = StaleManifest

\* needs_patching(file, new_sha)
CallNeedsPatching ==
    /\ call.op = "file"
    /\ call' = [call EXCEPT !.op = "needs_patching",
                            !.out = needs_patching(call.file, call.new_sha)]
    /\ UNCHANGED operatorVars

\* patch_deployment(file, image_name, new_sha); out.file is the file afterwards
CallPatchDeployment ==
    /\ call.op = "file"
    /\ \E write \in WriteOutcomes :
         call' = [call EXCEPT !.op = "patch_deployment",
                              !.out = patch_deployment(call.file, call.image_name,
                                                       call.new_sha, write)]
    /\ UNCHANGED operatorVars

\* needs_patching(file, new_sha) on the file a patch_deployment that returned
\* Ok has written, as the next reconciliation calls it
CallNeedsPatchingAfterPatch ==
    /\ call.op = "patch_deployment"
    /\ call.out.ok
    /\ call' = [call EXCEPT !.op = "needs_patching_after_patch",
                            !.file = call.out.file,
                            !.out = needs_patching(call.out.file, call.new_sha)]
    /\ UNCHANGED operatorVars

NextFiles ==
    \/ CallNeedsPatching
    \/ CallPatchDeployment
    \/ CallNeedsPatchingAfterPatch

SpecFiles == InitFiles /\ [][NextFiles]_vars

(* --------- the functions of git.rs, called on one repository ---------- *)
\* a manifest a third party wrote
OtherManifest == Manifest(<<ImageRef(S_app, S_ext), ImageRef(S_web, S_old)>>)

\* histories: a root commit, a local and a remote commit on top of it,
\* and a root commit of an unrelated history
GitStores ==
    { << MkCommit(<<>>, StaleManifest, "manifests"),
         MkCommit(<<1>>, ours, CommitMessage),
         MkCommit(<<1>>, theirs, "third party"),
         MkCommit(<<>>, OtherManifest, "unrelated") >> :
      ours \in {StaleManifest, FreshManifest},
      theirs \in {StaleManifest, FreshManifest, OtherManifest} }

\* the local path: missing, a plain directory, or a clone of the manifest
\* repository taken at the root commit whose HEAD is at the root or at the
\* local commit, with a clean or a patched working tree
GitDirs(cs) ==
    {NoDir, PlainDir} \cup
    { [exists |-> TRUE, origin |-> S_manifest_url, attached |-> a,
       det |-> IF a THEN 0 ELSE h, master |-> IF a THEN h ELSE 1,
       rt |-> [b \in Branches |-> IF b = S_master THEN 1 ELSE 0],
       wt |-> IF patched THEN FreshManifest ELSE cs[h].tree,
       index_conflicts |-> FALSE] :
      a \in BOOLEAN, h \in {1, 2}, patched \in BOOLEAN }

\* the branches of the remote
GitRefs == { [b \in Branches |-> IF b = S_master THEN m ELSE d] : m \in {1, 3, 4}, d \in {0, 3} }

\* what merge_analysis can answer besides what the histories give: none of
\* fast-forward, normal and up-to-date
MergeAnalysisNone == "none"

GitCall(op, cs, dir, refs, branch, n) ==
    [op |-> op, cs |-> cs, dir |-> dir, refs |-> refs, branch |-> branch, n |-> n,
     pre |-> [cs |-> cs, dir |-> dir, refs |-> refs], analysis |-> "", ok |-> TRUE,
     committed |-> FALSE, pushed |-> FALSE]

InitGit ==
    /\ call \in { GitCall("repo", cs, dir, refs, branch, 0) :
                  cs \in GitStores, dir \in UNION {GitDirs(c) : c \in GitStores},
                  refs \in GitRefs, branch \in Branches }
    /\ call.dir \in GitDirs(call.cs)
    /\ cache = {}
    /\ InitRest
    /\ commits[2].tree = StaleManifest

GitPre == [cs |-> call.cs, dir |-> call.dir, refs |-> call.refs]

\* clone_or_update_repo(url, repo_path, branch, ssh_key)
CallCloneOrUpdateRepo ==
    /\ call.n < MaxGitCalls
    /\ \E netOk \in BOOLEAN, sigOk \in BOOLEAN, markers \in BOOLEAN :
         LET r == clone_or_update_repo(call.cs, call.dir, S_manifest_url, call.refs,
                                       call.branch, netOk, sigOk, markers)
         IN call' = [call EXCEPT !.op = "clone_or_update_repo", !.n = @ + 1,
                                 !.pre = GitPre, !.cs = r.cs, !.dir = r.dir,
                                 !.analysis = "", !.ok = r.ok,
                                 !.committed = FALSE, !.pushed = FALSE]
    /\ UNCHANGED operatorVars

\* pull_repo(repo, branch) after fetch_existing_repo, on each answer of merge_analysis
CallPullRepo ==
    /\ call.n < MaxGitCalls
    /\ IsRepository(call.dir)
    /\ call.refs[call.branch] # 0
    /\ LET f == call.refs[call.branch]
           fetched == fetch_existing_repo(call.dir, call.refs, call.branch)
       IN \E analysis \in {MergeAnalysis(call.cs, fetched, f), MergeAnalysisNone},
             sigOk \in BOOLEAN, markers \in BOOLEAN :
            LET r == pull_on(analysis, call.cs, fetched, f, call.branch, sigOk, markers)
            IN call' = [call EXCEPT !.op = "pull_repo", !.n = @ + 1,
                                    !.pre = [GitPre EXCEPT !.dir = fetched],
                                    !.cs = r.cs, !.dir = r.dir,
                                    !.analysis = analysis, !.ok = r.ok,
                                    !.committed = FALSE, !.pushed = FALSE]
    /\ UNCHANGED operatorVars

\* stage_and_push_changes(repo, commit_message)
CallStageAndPushChanges ==
    /\ call.n < MaxGitCalls
    /\ IsRepository(call.dir)
    /\ \E netOk \in BOOLEAN :
         LET r == stage_and_push_changes(call.cs, call.dir, call.refs, CommitMessage, netOk)
         IN call' = [call EXCEPT !.op = "stage_and_push_changes", !.n = @ + 1,
                                 !.pre = GitPre, !.cs = r.cs, !.dir = r.dir,
                                 !.refs = r.refs, !.analysis = "", !.ok = r.ok,
                                 !.committed = r.committed, !.pushed = r.pushed]
    /\ UNCHANGED operatorVars

NextGit ==
    \/ CallCloneOrUpdateRepo
    \/ CallPullRepo
    \/ CallStageAndPushChanges

SpecGit == InitGit /\ [][NextGit]_vars

(* ------------------- registry.rs: one call of check_image ------------- *)
S_v1 == <<"/","v","1">>
S_v2 == <<"/","v","2">>
S_v1_slash == <<"/","v","1","/">>
S_v2_slash == <<"/","v","2","/">>
S_manifests == <<"/","m","a","n","i","f","e","s","t","s","/">>

\* str::ends_with
EndsWith(s, suffix) ==
    Len(s) >= Len(suffix) /\ SubSeq(s, Len(s) - Len(suffix) + 1, Len(s)) = suffix

\* str::replace: every occurrence of from, left to right, without overlap
RECURSIVE Replace(_, _, _)
Replace(s, from, to) ==
    IF Len(s) < Len(from) THEN s
    ELSE IF SubSeq(s, 1, Len(from)) = from
         THEN to \o Replace(SubSeq(s, Len(from) + 1, Len(s)), from, to)
         ELSE <<Head(s)>> \o Replace(Tail(s), from, to)

\* str::trim_end_matches('/')
RECURSIVE TrimEndSlashes(_)
TrimEndSlashes(s) ==
    IF s # <<>> /\ s[Len(s)] = "/" THEN TrimEndSlashes(SubSeq(s, 1, Len(s) - 1)) ELSE s

\* the match on self.registry_url at the head of check_image
NormalisedRegistryUrl(url) ==
    IF EndsWith(url, S_v1_slash) THEN Replace(url, S_v1, S_v2)
    ELSE IF EndsWith(url, S_v2_slash) THEN url
    ELSE TrimEndSlashes(url) \o S_v2

\* format!("{}/{}/manifests/{}", registry_url, image, tag)
ManifestUrl(registry_url, image, tag) ==
    NormalisedRegistryUrl(registry_url) \o S_slash \o image \o S_manifests \o tag

\* registry URLs a checker is made with: ending in /v1/ (once with another
\* /v1 before it), in /v2/, in /v2, in slashes, and a bare host
RegistryUrls ==
    { <<"h","/","v","1","/">>, <<"h","/","v","1","a","/","v","1","/">>, <<"h","/","v","2","/">>, <<"h","/","v","2">>, <<"h","/","/">>, <<"h">> }

S_bearer == <<"B","e","a","r","e","r"," ">>
S_basic_token == <<"B","a","s","i","c"," ","d","X","N","l","c","g","=","=">>
S_tok == <<"t","o","k">>
S_acc == <<"a","c","c">>

\* a WWW-Authenticate value after strip_prefix, split(','), trim and
\* splitn(2, '='): its scheme and its key=value pairs in order
Challenge(scheme, pairs) == [scheme |-> scheme, pairs |-> pairs]

LastValue(pairs, key) ==
    LET idx == {k \in 1..Len(pairs) : pairs[k][1] = key}
    IN IF idx = {} THEN None ELSE Some(pairs[SetMax(idx)][2])

\* AuthChallenge::from_header: realm, service and scope of a Bearer value
from_header(header) ==
    LET realm == IF header.scheme = "Bearer" THEN LastValue(header.pairs, "realm") ELSE None
        service == IF header.scheme = "Bearer" THEN LastValue(header.pairs, "service") ELSE None
        scope == IF header.scheme = "Bearer" THEN LastValue(header.pairs, "scope") ELSE None
    IN IF IsSome(realm) /\ IsSome(service) /\ IsSome(scope)
       THEN Some([realm |-> Unwrap(realm), service |-> Unwrap(service),
                  scope |-> Unwrap(scope)])
       ELSE None

\* StatusCode::is_success
is_success(status) == 200 <= status /\ status <= 299

\* check_image goes for a token: the status is 401, the response has a
\* WWW-Authenticate header and from_header accepts it
NeedsToken(status, www_authenticate) ==
    /\ status = 401
    /\ IsSome(www_authenticate)
    /\ IsSome(from_header(Unwrap(www_authenticate)))

\* a variant that goes for a token again when the second HEAD is challenged
AfterRetry_Again(status, www_authenticate) ==
    IF NeedsToken(status, www_authenticate) THEN "token" ELSE "done"

\* after the second HEAD check_image returns, whatever the response
AfterRetry(status, www_authenticate) == "done"

\* serde's TokenResponse: token is required, access_token is optional
ParseTokenResponse(body) ==
    IF IsSome(body.token) THEN Some([token |-> Unwrap(body.token), access_token |-> body.access_token])
    ELSE None

\* token_response.access_token.unwrap_or(token_response.token)
BearerToken(tr) == IF IsSome(tr.access_token) THEN Unwrap(tr.access_token) ELSE tr.token

\* no response: the transfer failed
NoStatus == 0

\* statuses a registry answers with
Statuses == {200, 299, 300, 401, 404, 500}

\* WWW-Authenticate headers of a response: none, one that is not visible
\* ASCII, a Basic one, and Bearer ones that are complete, out of order with
\* a repeated key, and short of the scope
ChallengeHeaders ==
    { None,
      Some(Challenge("", <<>>)),
      Some(Challenge("Basic", << <<"realm", "Registry">> >>)),
      Some(Challenge("Bearer", << <<"realm", "https://auth/token">>,
                                  <<"service", "registry">>,
                                  <<"scope", "repository:app:pull">> >>)),
      Some(Challenge("Bearer", << <<"scope", "repository:app:pull">>,
                                  <<"error", "invalid_token">>,
                                  <<"realm", "https://old/token">>,
                                  <<"service", "registry">>,
                                  <<"realm", "https://auth/token">> >>)),
      Some(Challenge("Bearer", << <<"realm", "https://auth/token">>,
                                  <<"service", "registry">> >>)) }

\* bodies of a token response
TokenBodies ==
    { [token |-> t, access_token |-> a] :
      t \in {None, Some(S_tok)}, a \in {None, Some(S_acc)} }

HeadRequest(url, authorization, status, www_authenticate) ==
    [url |-> url, authorization |-> authorization, status |-> status,
     www_authenticate |-> www_authenticate]

\* the url of both HEADs of the call
CallUrl == ManifestUrl(call.checker.registry_url, call.image, call.tag)

\* RegistryChecker after new(): the token it was given and the credentials
\* new() took out of it
Checkers ==
    { [registry_url |-> u, auth_token |-> c[1], username |-> c[2], password |-> c[3]] :
      u \in RegistryUrls,
      c \in { <<None, None, None>>,
              <<Some(S_basic_token), None, None>>,
              <<Some(S_basic_token), Some("user"), None>>,
              <<Some(S_basic_token), Some("user"), Some("pass")>> } }

InitRegistry ==
    /\ call \in { [op |-> "check_image", pc |-> "head", checker |-> c,
                   image |-> S_app, tag |-> t,
                   heads |-> <<>>, token_requests |-> <<>>, token_response |-> None,
                   token |-> None,
                   result |-> "none"] :
                  c \in Checkers, t \in {ShaOf(1), SubSeq(ShaOf(1), 1, ShortShaLen)} }
    /\ cache = {}
    /\ InitRest
    /\ commits[2].tree = StaleManifest

\* the first HEAD of check_image and the branch on its response
SendHead ==
    /\ call.op = "check_image" /\ call.pc = "head"
    /\ LET authorization == IF IsSome(call.checker.auth_token)
                            THEN Unwrap(call.checker.auth_token) ELSE <<>>
       IN \/ call' = [call EXCEPT !.heads = Append(@, HeadRequest(CallUrl, authorization, NoStatus, None)),
                                  !.pc = "done", !.result = "err"]
          \/ \E status \in Statuses, h \in ChallengeHeaders :
               call' = [call EXCEPT
                  !.heads = Append(@, HeadRequest(CallUrl, authorization, status, h)),
                  !.pc = IF NeedsToken(status, h) THEN "token" ELSE "done",
                  !.result = IF NeedsToken(status, h) THEN "none"
                             ELSE IF is_success(status) THEN "true" ELSE "false"]
    /\ UNCHANGED operatorVars

\* get_bearer_token(&challenge) and the ? on its result
GetBearerToken ==
    /\ call.op = "check_image" /\ call.pc = "token"
    /\ LET challenge == Unwrap(from_header(Unwrap(call.heads[1].www_authenticate)))
           request == [realm |-> challenge.realm, service |-> challenge.service,
                       scope |-> challenge.scope,
                       basic_auth |-> IsSome(call.checker.username)
                                      /\ IsSome(call.checker.password)]
           failed == [call EXCEPT !.token_requests = Append(@, request),
                                  !.pc = "done", !.result = "err"]
       IN \/ call' = failed
          \/ \E status \in Statuses, body \in TokenBodies :
               LET answer == Some([status |-> status, body |-> body])
               IN call' = IF is_success(status) /\ IsSome(ParseTokenResponse(body))
                          THEN [call EXCEPT
                                  !.token_requests = Append(@, request),
                                  !.token_response = answer,
                                  !.token = Some(BearerToken(Unwrap(ParseTokenResponse(body)))),
                                  !.pc = "retry"]
                          ELSE [failed EXCEPT !.token_response = answer]
    /\ UNCHANGED operatorVars

\* the second HEAD of check_image, with the bearer token
RetryHead ==
    /\ call.op = "check_image" /\ call.pc = "retry"
    /\ LET authorization == S_bearer \o Unwrap(call.token)
       IN \/ call' = [call EXCEPT !.heads = Append(@, HeadRequest(CallUrl, authorization, NoStatus, None)),
                                  !.pc = "done", !.result = "err"]
          \/ \E status \in Statuses, h \in ChallengeHeaders :
               call' = [call EXCEPT
                  !.heads = Append(@, HeadRequest(CallUrl, authorization, status, h)),
                  !.pc = AfterRetry(status, h),
                  !.result = IF is_success(status) THEN "true" ELSE "false"]
    /\ UNCHANGED operatorVars

NextRegistry ==
    \/ SendHead
    \/ GetBearerToken
    \/ RetryHead

SpecRegistry == InitRegistry /\ [][NextRegistry]_vars

(* ------------------------------ claims -------------------------------- *)
Done(i) == tasks[i].pc = "done"
Patched(i) == Done(i) /\ tasks[i].result = ResultOk
MsgLatestSha == "Failed to get latest SHA"

\* the manifest file of entry i as it is on disk now
ManifestOf(i) == ReadFile(fs[ManifestRepoPath(Entry(i))], Cfg(i).deployment_path)

\* the serialized manifest contains s: some container image does
FileContains(file, s) ==
    /\ file.kind = "deployment"
    /\ \E k \in 1..Len(file.images) : Contains(file.images[k], s)

\* the image references of entry i's containers before the reconciliation
OldRefs(i) ==
    IF tasks[i].pre.kind # "deployment" THEN {}
    ELSE {tasks[i].pre.images[k] :
            k \in {n \in 1..Len(tasks[i].pre.images) :
                     Contains(tasks[i].pre.images[n], Cfg(i).image_name)}}

\* a reconciliation that ended well: patched, or nothing to do
Successful(r) == r = ResultOk \/ r = ResultErr(MsgUpToDate)

\* C1: whenever a reconciliation of entry E ends with the patched outcome for
\* version S, the head commit get_latest_commit returned, the manifest file at
\* E's deployment path contains "{image_name}:{S}" and no longer contains the
\* image reference E's container had before that reconciliation.
C1_PatchedManifest ==
    \A i \in DepIds :
        (Patched(i) /\ tasks[i].latest = "ok") =>
            /\ FileContains(ManifestOf(i), ImageRef(Cfg(i).image_name, tasks[i].new_sha))
            /\ \A old \in OldRefs(i) : ~FileContains(ManifestOf(i), old)

\* C2: with the source head fixed and nobody else pushing, two successive
\* reconciliations of one entry that both end successfully make at most one
\* manifest commit: once the first has pushed its commit, the second is up to
\* date, commits nothing and pushes nothing.
C2_Idempotent ==
    \A i \in DepIds :
        ( /\ Done(i)
          /\ extPushes = 0
          /\ prev[i].pushes = 1
          /\ Successful(prev[i].result)
          /\ Successful(tasks[i].result) )
        => /\ tasks[i].result = ResultErr(MsgUpToDate)
           /\ tasks[i].commits_made = 0
           /\ tasks[i].pushes = 0
           /\ prev[i].pushes + tasks[i].pushes <= 1

\* C3: the manifest file is written for the SHA get_latest_commit returned
\* only if needs_patching found no container image holding that SHA and the
\* registry holds image_name:SHA.
C3_WriteGuarded ==
    \A i \in DepIds :
        (tasks[i].wrote /\ tasks[i].latest = "ok")
        => tasks[i].needs = "true" /\ tasks[i].probe = "present"

\* C4: when the registry does not hold the image of the new SHA, the
\* reconciliation ends with a failure, the manifest file is left as it was
\* and nothing is committed or pushed.
C4_AbsentImage ==
    \A i \in DepIds :
        ( /\ Done(i)
          /\ tasks[i].latest = "ok"
          /\ tasks[i].needs = "true"
          /\ tasks[i].probe = "absent" )
        => /\ tasks[i].result.kind = "Err"
           /\ ~tasks[i].wrote
           /\ ManifestOf(i) = tasks[i].pre
           /\ tasks[i].commits_made = 0
           /\ tasks[i].pushes = 0

\* C5: when get_latest_commit fails, the reconciliation ends with the failure
\* "Failed to get latest SHA"; the manifest is not rewritten and nothing is
\* committed or pushed.
C5_LatestFails ==
    \A i \in DepIds :
        (Done(i) /\ tasks[i].latest = "err")
        => /\ tasks[i].result = ResultErr(MsgLatestSha)
           /\ ~tasks[i].wrote
           /\ tasks[i].commits_made = 0
           /\ tasks[i].pushes = 0

\* C6: when the SSH key secret cannot be fetched, the reconciliation has ended
\* with the failure "Failed to get SSH key" and has done no clone, fetch,
\* manifest write, commit, push or notification; in the first request no
\* clone directory exists and the only commits are the ones others pushed.
C6_SshKeyFailure ==
    \A i \in DepIds :
        tasks[i].key = "err"
        => /\ Done(i)
           /\ tasks[i].result = ResultErr(MsgSshKey)
           /\ tasks[i].clone_app = "idle"
           /\ tasks[i].clone_manifest = "idle"
           /\ tasks[i].transfers = 0
           /\ ~tasks[i].wrote
           /\ tasks[i].commits_made = 0
           /\ tasks[i].pushes = 0
           /\ tasks[i].sent = {}
           /\ dispatches = 0 =>
                /\ \A p \in Paths : fs[p] = NoDir
                /\ Len(commits) = 2 + extPushes

\* a reconciliation whose key fetch failed although a webhook endpoint is set
C6_Witness ==
    \E i \in DepIds :
        /\ tasks[i].key = "err"
        /\ Done(i)
        /\ tasks[i].endpoint
        /\ ~Cfg(i).notifications

\* C7: when needs_patching returns false, the reconciliation ends with the
\* success outcome, never a failure, and neither rewrites the manifest nor
\* commits, pushes or notifies.
C7_UpToDateIsSuccess ==
    \A i \in DepIds :
        (Done(i) /\ tasks[i].needs = "false")
        => /\ tasks[i].result.kind = "Ok"
           /\ ~tasks[i].wrote
           /\ tasks[i].commits_made = 0
           /\ tasks[i].pushes = 0
           /\ tasks[i].sent = {}

\* C8: when a reconciliation has patched the manifest to the head commit of
\* the source and commit_changes returns OK without a conflict, that step created exactly one commit, on top
\* of the previous head, with the rewritten manifest and the fixed message,
\* and the master branch of the manifest remote points to it.
C8_OneCommitOnMaster ==
    [][ \A i \in DepIds :
          ( /\ tasks[i].pc = "commit"
            /\ tasks'[i].pc # "commit"
            /\ tasks[i].patch = "ok"
            /\ tasks[i].latest = "ok"
            /\ ~fs[ManifestRepoPath(Entry(i))].index_conflicts
            /\ tasks'[i].commit = "ok" )
          => LET dir == fs[ManifestRepoPath(Entry(i))]
                 c == Len(commits) + 1
             IN /\ Len(commits') = c
                /\ tasks'[i].new_commit = c
                /\ commits'[c] = MkCommit(<<HeadOf(dir)>>, dir.wt, CommitMessage)
                /\ remote'[Cfg(i).manifest_repository][S_master] = c
      ]_vars

\* C9: reconcile answers with exactly one element per Deployment of the
\* snapshot that yields an enabled Entry, and none for the others.
C9_OnePerEnabled ==
    IsSome(response)
    => LET body == Unwrap(response)
       IN /\ \A k \in 1..Len(body) : Cfg(body[k]).enabled
          /\ Range(body) = {i \in cache : IsSome(EntryOf(i)) /\ Cfg(i).enabled}
          /\ Len(body) = Cardinality(Range(body))

\* C10: within one dispatch, the step in which one entry's commit fails and
\* its clone directory is removed leaves the clone directories and the
\* manifest of every other entry that has cloned and is still being
\* reconciled as they were.
C10_FailureIsolated ==
    [][ \A i \in DepIds, j \in DepIds :
          ( /\ i # j
            /\ tasks[i].pc = "commit"
            /\ tasks'[i].cleaned
            /\ tasks[j].pc \in {"cloning", "notify_failure"}
            /\ tasks[j].clone_app = "done"
            /\ tasks[j].clone_manifest = "done" )
          => /\ fs'[AppRepoPath(Entry(j))] = fs[AppRepoPath(Entry(j))]
             /\ fs'[ManifestRepoPath(Entry(j))] = fs[ManifestRepoPath(Entry(j))]
      ]_vars

\* the clone directories of entry i
DirsOf(i) == {AppRepoPath(Entry(i)), ManifestRepoPath(Entry(i))}

\* the future of entry i has started a clone and has not returned yet
UsesDirs(i) ==
    /\ tasks[i].pc \notin {"none", "done", "panicked"}
    /\ tasks[i].clone_app # "idle"

\* C11: at any time a clone directory is used by at most one reconciliation
\* in flight: two different entries of one dispatch that have both started
\* cloning and have not returned have no clone directory in common.
C11_DirectoryOwned ==
    \A i \in DepIds, j \in DepIds :
        (i # j /\ UsesDirs(i) /\ UsesDirs(j)) => DirsOf(i) \cap DirsOf(j) = {}

\* the first container of d has an image
HasFirstImage(d) ==
    /\ IsSome(d.containers)
    /\ Len(Unwrap(d.containers)) > 0
    /\ IsSome(Unwrap(d.containers)[1])

\* d lacks a namespace, the annotations, a first container with an image, or
\* one of the seven required annotations
Lacking(d) ==
    \/ ~IsSome(d.namespace)
    \/ ~IsSome(d.annotations)
    \/ ~HasFirstImage(d)
    \/ \E k \in SevenRequired : k \notin DOMAIN Unwrap(d.annotations)

\* the listing holds an entry made from d
Listed(listing, d) == \E k \in 1..Len(listing) : listing[k].name = d.name

\* C12: a Deployment that lacks a namespace, the annotations map, a first
\* container with an image, or one of the seven required annotations gives
\* no Entry, and neither the /debug listing nor the /reconcile response of a
\* store that holds it has an entry for it.
C12_LackingGivesNoEntry ==
    Lacking(call.d) =>
        /\ call.op = "deployment_to_entry" => call.entry = None
        /\ call.op \in {"debug", "reconcile"} => ~Listed(call.listing, call.d)

\* a Deployment that lacks only the namespace was converted
C12_Witness_NoNamespace ==
    /\ call.op = "deployment_to_entry"
    /\ ~IsSome(call.d.namespace)
    /\ call.d.annotations = Some(BaseAnn)
    /\ HasFirstImage(call.d)
    /\ call.entry = None

\* C13: a Deployment that has every required annotation and whose
\* gitops.operator.enabled value does not parse as a boolean gives no Entry.
C13_UnparseableEnabledRejected ==
    ( /\ call.op = "deployment_to_entry"
      /\ ~Lacking(call.d)
      /\ ParseBool(Trim(Unwrap(call.d.annotations)["enabled"])) = None )
    => call.entry = None

\* C14: a Deployment with a namespace, a first container image, the seven
\* required annotations with a parseable enabled value and no other
\* annotation gives an Entry whose config fields are the annotation values.
C14_SevenAnnotationsGiveEntry ==
    ( /\ call.op = "deployment_to_entry"
      /\ ~Lacking(call.d)
      /\ DOMAIN Unwrap(call.d.annotations) = SevenRequired
      /\ ParseBool(Trim(Unwrap(call.d.annotations)["enabled"])) # None )
    => /\ IsSome(call.entry)
       /\ LET ann == Unwrap(call.d.annotations)
              config == Unwrap(call.entry).config
          IN /\ config.enabled = Unwrap(ParseBool(Trim(ann["enabled"])))
             /\ config.namespace = Unwrap(call.d.namespace)
             /\ config.app_repository = ann["app_repository"]
             /\ config.manifest_repository = ann["manifest_repository"]
             /\ config.image_name = ann["image_name"]
             /\ config.deployment_path = ann["deployment_path"]
             /\ config.ssh_key_name = ann["ssh_key_name"]
             /\ config.ssh_key_namespace = ann["ssh_key_namespace"]

\* the image of the first container of the Deployment that was converted
FirstImage == Unwrap(Unwrap(call.d.containers)[1])

\* C15: for every Entry produced the image of the first container is split
\* at its first ':' only: container has no ':', and container, ':' and
\* version put together give the image; an image without ':' gives
\* container = the image and version = "latest".
C15_SplitAtFirstColon ==
    (call.op = "deployment_to_entry" /\ IsSome(call.entry)) =>
        LET e == Unwrap(call.entry)
        IN /\ ~Contains(e.container, S_colon)
           /\ Contains(FirstImage, S_colon) => ImageRef(e.container, e.version) = FirstImage
           /\ ~Contains(FirstImage, S_colon) => e.container = FirstImage /\ e.version = S_latest

\* an Entry was produced from an image with two ':'
C15_Witness_TwoColons ==
    /\ call.op = "deployment_to_entry"
    /\ IsSome(call.entry)
    /\ FirstImage = S_reg_port
    /\ Unwrap(call.entry).version # S_old

\* C16: for every Entry produced, observe_branch is "master" when its
\* annotation is absent and the annotation value otherwise; tag_type is
\* "long" when its annotation is absent or anything but "short", and
\* "short" when the annotation says so.
C16_OptionalDefaults ==
    (call.op = "deployment_to_entry" /\ IsSome(call.entry)) =>
        LET ann == Unwrap(call.d.annotations)
            config == Unwrap(call.entry).config
        IN /\ "observe_branch" \notin DOMAIN ann => config.observe_branch = S_master
           /\ "observe_branch" \in DOMAIN ann => config.observe_branch = ann["observe_branch"]
           /\ "tag_type" \notin DOMAIN ann => config.tag_type = S_long
           /\ ("tag_type" \in DOMAIN ann /\ ann["tag_type"] # S_short) => config.tag_type = S_long
           /\ ("tag_type" \in DOMAIN ann /\ ann["tag_type"] = S_short) => config.tag_type = S_short

\* an Entry was produced from a tag_type that is neither "short" nor "long",
\* with no observe_branch annotation
C16_Witness_OtherTagType ==
    /\ call.op = "deployment_to_entry"
    /\ IsSome(call.entry)
    /\ AnnGet(Unwrap(call.d.annotations), "tag_type") = Some(S_other)
    /\ AnnGet(Unwrap(call.d.annotations), "observe_branch") = None
    /\ Unwrap(call.entry).config.tag_type = S_long

\* C17: the outcome of a reconciliation and the steps it takes do not depend
\* on the notification endpoint or on the sending of notifications: a future
\* that has returned went through the key fetch, its result is decided by
\* the key fetch and by needs_patching alone, and when needs_patching said
\* true commit_changes ran; a future without endpoint sends nothing.
C17_NotificationsBestEffort ==
    \A i \in DepIds :
        /\ ~tasks[i].endpoint => (tasks[i].sent = {} /\ tasks[i].lost = {})
        /\ Done(i) =>
             /\ tasks[i].key \in {"ok", "err"}
             /\ tasks[i].key = "err" => tasks[i].result = ResultErr(MsgSshKey)
             /\ (tasks[i].key = "ok" /\ tasks[i].needs = "true") =>
                    (tasks[i].result = ResultOk /\ tasks[i].commit # "none")
             /\ (tasks[i].key = "ok" /\ tasks[i].needs # "true") =>
                    tasks[i].result = ResultErr(MsgUpToDate)

\* a future returned after the notification of a failed patch could not be sent
C17_Witness_LostNotification ==
    \E i \in DepIds :
        /\ Done(i)
        /\ "failed" \in tasks[i].lost
        /\ tasks[i].commit # "none"

\* the commit id of refs/remotes/origin/{observe_branch} in entry i's
\* application clone
TrackedSha(i) == ShaOf(fs[AppRepoPath(Entry(i))].rt[Cfg(i).observe_branch])

\* C18: when get_latest_commit succeeds, what it returns is the full
\* ShaLen-character commit id of refs/remotes/origin/{branch} for tag_type
\* "long" and exactly its first ShortShaLen characters for "short"; after a
\* patch that succeeded, the images of the manifest that changed are
\* image_name with that value as tag, and there is one.
C18_TagIsLatestCommit ==
    \A i \in DepIds :
        (tasks[i].latest = "ok" /\ tasks[i].pc = "commit") =>
            /\ Cfg(i).tag_type = S_long =>
                  (tasks[i].new_sha = TrackedSha(i) /\ Len(tasks[i].new_sha) = ShaLen)
            /\ Cfg(i).tag_type = S_short =>
                  /\ Len(tasks[i].new_sha) = ShortShaLen
                  /\ tasks[i].new_sha = SubSeq(TrackedSha(i), 1, ShortShaLen)
            /\ tasks[i].patch = "ok" =>
                  LET now == ManifestOf(i).images
                      was == tasks[i].pre.images
                      tag == ImageRef(Cfg(i).image_name, tasks[i].new_sha)
                  IN /\ Len(now) = Len(was)
                     /\ \E k \in 1..Len(now) : now[k] = tag
                     /\ \A k \in 1..Len(now) : now[k] # was[k] => now[k] = tag

\* a patch with a short tag succeeded
C18_Witness_ShortTag ==
    \E i \in DepIds :
        /\ tasks[i].latest = "ok"
        /\ tasks[i].pc = "commit"
        /\ tasks[i].patch = "ok"
        /\ Cfg(i).tag_type = S_short
        /\ Len(tasks[i].new_sha) = ShortShaLen

\* the parsed Deployment of the file has a container whose image contains s
SomeImageContains(file, s) ==
    \E k \in 1..Len(file.images) : file.images[k] # NoImage /\ Contains(file.images[k], s)

C20_NeedsPatchingIff ==
    (call.op = "needs_patching" /\ call.file.kind = "deployment") =>
        /\ SomeImageContains(call.file, call.new_sha) => call.out = Some(FALSE)
        /\ ~SomeImageContains(call.file, call.new_sha) => call.out = Some(TRUE)

\* C21: within one reconciliation get_latest_commit and every later step
\* start only after both clone tasks have finished, whatever either gave:
\* a future that has called get_latest_commit has both clones done.
C21_ClonesJoinedFirst ==
    \A i \in DepIds :
        tasks[i].latest # "none" =>
            (tasks[i].clone_app = "done" /\ tasks[i].clone_manifest = "done")

\* get_latest_commit was called after an application clone that failed
C21_Witness_AfterFailedClone ==
    \E i \in DepIds :
        /\ tasks[i].latest = "err"
        /\ tasks[i].clone_app = "done"
        /\ tasks[i].clone_manifest = "done"
        /\ ~fs[AppRepoPath(Entry(i))].exists
        /\ fs[ManifestRepoPath(Entry(i))].exists

\* the notifications a future has tried to send
Tried(t) == t.sent \cup t.lost

\* C22: within one reconciliation the steps run in the order secret fetch,
\* clones, get_latest_commit, needs_patching, patch_deployment,
\* commit_changes, notification, each after its predecessor has returned,
\* and each at most once: every step of a future starts with its own
\* outcome still unset and with the outcome of its predecessor set.
C22_StepsInOrderOnce ==
    [][ \A i \in DepIds :
          LET t == tasks[i]
              u == tasks'[i]
          IN (u # t /\ u.pc # "none") =>
               /\ u.key # t.key => (t.pc = "ssh_key" /\ t.key = "none")
               /\ t.pc = "ssh_key" => t.key = "none"
               /\ u.clone_app # t.clone_app =>
                     (u.key = "ok" /\ t.clone_app # "done" /\ t.latest = "none")
               /\ u.clone_manifest # t.clone_manifest =>
                     (u.key = "ok" /\ t.clone_manifest # "done" /\ t.latest = "none")
               /\ u.latest # t.latest =>
                     /\ t.latest = "none" /\ t.needs = "none" /\ t.patch = "none"
                     /\ t.clone_app = "done" /\ t.clone_manifest = "done"
               /\ u.needs # t.needs => (t.needs = "none" /\ u.latest # "none")
               /\ u.patch # t.patch =>
                     (t.patch = "none" /\ u.needs = "true" /\ t.commit = "none")
               /\ t.pc = "commit" => (t.commit = "none" /\ t.patch # "none")
               /\ u.commit # t.commit => t.pc = "commit"
               /\ ("patched" \in Tried(u) /\ "patched" \notin Tried(t)) =>
                     (t.commit # "none" /\ u.pc = "done")
               /\ u.commits_made <= 1
               /\ u.pushes <= 1
      ]_vars

\* a future went through every step and returned
C22_Witness_AllSteps ==
    \E i \in DepIds :
        /\ Done(i)
        /\ tasks[i].key = "ok"
        /\ tasks[i].latest = "ok"
        /\ tasks[i].needs = "true"
        /\ tasks[i].patch = "ok"
        /\ tasks[i].commit = "ok"
        /\ "patched" \in tasks[i].sent

\* C23: when patch_deployment fails, the manifest clone directory is removed
\* and commit_changes, which still runs, fails too: the future returns with
\* the directory gone and with no commit created and none pushed (seen on
\* reconciliations whose get_latest_commit succeeded).
C23_FailedPatchNoCommit ==
    \A i \in DepIds :
        (Done(i) /\ tasks[i].latest = "ok" /\ tasks[i].patch = "err") =>
            /\ tasks[i].commit = "err"
            /\ tasks[i].commits_made = 0
            /\ tasks[i].pushes = 0
            /\ ~fs[ManifestRepoPath(Entry(i))].exists

PullHadConflicts ==
    LET h == HeadOf(call.pre.dir)
        f == call.pre.refs[call.branch]
        base == MergeBase(call.pre.cs, h, f)
    IN /\ call.op = "pull_repo"
       /\ call.analysis = "normal"
       /\ base # 0
       /\ MergeConflicts(call.pre.cs[base].tree, call.pre.cs[h].tree, call.pre.cs[f].tree)

C27_ClonesOnlyMissingPath ==
    call.op = "clone_or_update_repo" =>
      /\ (~call.pre.dir.exists /\ call.ok) =>
            /\ call.dir.exists /\ call.dir.origin = S_manifest_url
            /\ HeadOf(call.dir) = call.refs[S_master]
            /\ call.dir.wt = call.cs[call.refs[S_master]].tree
      /\ (call.pre.dir.exists /\ ~IsRepository(call.pre.dir)) =>
            /\ ~call.ok
            /\ call.dir = call.pre.dir
      /\ IsRepository(call.pre.dir) =>
            /\ call.dir.origin = call.pre.dir.origin
            /\ IsAncestor(call.cs, HeadOf(call.pre.dir), HeadOf(call.dir))
            /\ call.ok => call.dir.rt[call.branch] = call.refs[call.branch]

\* the path existed, held no repository, and the call failed
C27_Witness_PlainDirectory ==
    /\ call.op = "clone_or_update_repo"
    /\ call.pre.dir = PlainDir
    /\ ~call.ok
    /\ call.dir = PlainDir

\* the commit the pull that was called had fetched
Fetched == call.pre.refs[call.branch]

\* C28: pull_repo acts on the merge analysis. Up-to-date changes nothing. A
\* fast-forward sets refs/remotes/origin/master to the fetched commit, puts
\* HEAD on the commit that ref names and checks its tree out over the working
\* tree, whatever branch was pulled. Normal goes through the three-way merge:
\* a commit it adds has HEAD and the fetched commit as parents. Any other
\* analysis is an error that changes nothing.
C28_PullFollowsAnalysis ==
    call.op = "pull_repo" =>
      /\ call.analysis = "up_to_date" =>
            call.ok /\ call.dir = call.pre.dir /\ call.cs = call.pre.cs
      /\ call.analysis = "fast_forward" =>
            /\ call.ok /\ call.cs = call.pre.cs
            /\ call.dir.rt[S_master] = Fetched
            /\ \A b \in Branches \ {S_master} : call.dir.rt[b] = call.pre.dir.rt[b]
            /\ HeadOf(call.dir) = Fetched /\ ~call.dir.attached
            /\ call.dir.master = call.pre.dir.master
            /\ call.dir.wt = call.cs[Fetched].tree
      /\ call.analysis = "normal" =>
            \/ call.cs = call.pre.cs /\ HeadOf(call.dir) = HeadOf(call.pre.dir)
            \/ /\ call.ok
               /\ call.cs = Append(call.pre.cs, call.cs[Len(call.cs)])
               /\ call.cs[Len(call.cs)].parents = <<HeadOf(call.pre.dir), Fetched>>
               /\ HeadOf(call.dir) = Len(call.cs)
      /\ call.analysis = MergeAnalysisNone =>
            ~call.ok /\ call.dir = call.pre.dir /\ call.cs = call.pre.cs

\* a fast-forward of a pull of the other branch moved origin/master
C28_Witness_FastForwardOtherBranch ==
    /\ call.op = "pull_repo"
    /\ call.analysis = "fast_forward"
    /\ call.branch = S_dev
    /\ call.pre.dir.rt[S_master] # Fetched
    /\ call.dir.rt[S_master] = Fetched
    /\ call.ok

\* C29: after patch_deployment succeeds, the file holds the same containers:
\* each one whose image contained image_name has the image
\* "{image_name}:{new_sha}" and nothing else of it, each other one the image
\* it had.
C29_PatchRewritesMatchingImages ==
    (call.op = "patch_deployment" /\ call.out.ok) =>
      /\ call.file.kind = "deployment"
      /\ call.out.file.kind = "deployment"
      /\ Len(call.out.file.images) = Len(call.file.images)
      /\ \A k \in 1..Len(call.file.images) :
           IF Contains(call.file.images[k], call.image_name)
           THEN call.out.file.images[k] = call.image_name \o S_colon \o call.new_sha
           ELSE call.out.file.images[k] = call.file.images[k]

\* a patch that rewrote an image with a registry prefix and kept another one
C29_Witness_OnePatchedOneKept ==
    /\ call.op = "patch_deployment"
    /\ call.out.ok
    /\ call.image_name = S_app
    /\ Len(call.file.images) = 2
    /\ \E k \in 1..2 :
         /\ Contains(call.file.images[k], S_registry)
         /\ call.out.file.images[k] = ImageRef(S_app, call.new_sha)
    /\ \E k \in 1..2 :
         /\ call.file.images[k] = ImageRef(S_web, S_old)
         /\ call.out.file.images[k] = ImageRef(S_web, S_old)

\* the HEADs of the call that got a response
Answered == SelectSeq(call.heads, LAMBDA h : h.status # NoStatus)

\* C30: check_image sends one HEAD with the checker's token; it asks the
\* realm for a token only after a 401 whose Bearer challenge parses, at most
\* once, and only then sends a second and last HEAD, with "Bearer <token>";
\* it returns true exactly when the last HEAD response was a 2xx.
C30_AtMostTwoHeads ==
    call.op = "check_image" =>
      /\ Len(call.heads) <= 2 /\ Len(call.token_requests) <= 1
      /\ call.pc # "head" => Len(call.heads) >= 1
      /\ Len(call.token_requests) = 1 <=>
            /\ Len(call.heads) >= 1
            /\ call.heads[1].status = 401
            /\ IsSome(call.heads[1].www_authenticate)
            /\ IsSome(from_header(Unwrap(call.heads[1].www_authenticate)))
            /\ call.pc # "token"
      /\ Len(call.token_requests) = 1 =>
            call.token_requests[1].realm =
                Unwrap(from_header(Unwrap(call.heads[1].www_authenticate))).realm
      /\ Len(call.heads) = 2 =>
            /\ Len(call.token_requests) = 1
            /\ IsSome(call.token)
            /\ call.heads[2].authorization = S_bearer \o Unwrap(call.token)
            /\ call.pc = "done"
      /\ call.pc = "done" =>
            (call.result = "true" <=>
               Answered # <<>> /\ Answered[Len(Answered)].status \in 200..299)
      /\ call.pc \in {"head", "token", "retry"} => call.result = "none"

\* a call that got 401 with a challenge, a token, and a 2xx on the second HEAD
C30_Witness_RetriedWithToken ==
    /\ call.op = "check_image" /\ call.pc = "done"
    /\ Len(call.heads) = 2
    /\ call.heads[1].status = 401
    /\ call.heads[2].authorization = S_bearer \o S_acc
    /\ is_success(call.heads[2].status)
    /\ call.result = "true"

\* C31: the bearer token of the retried HEAD is the access_token of the token
\* response when it has one and else its token field: a 2xx token response
\* that carries either field yields a token.
C31_EitherFieldYieldsToken ==
    (/\ call.op = "check_image"
     /\ IsSome(call.token_response)
     /\ Unwrap(call.token_response).status \in 200..299
     /\ \/ IsSome(Unwrap(call.token_response).body.token)
        \/ IsSome(Unwrap(call.token_response).body.access_token)) =>
      LET body == Unwrap(call.token_response).body
      IN call.token = IF IsSome(body.access_token) THEN body.access_token ELSE body.token

\* the url of the manifest as the registry API has it: the registry URL
\* without its trailing /v1/, /v2/ or slashes, then /v2, the image and the tag
ExpectedManifestUrl(registry_url, image, tag) ==
    LET n == Len(registry_url)
        root == IF EndsWith(registry_url, S_v1_slash) \/ EndsWith(registry_url, S_v2_slash)
                THEN SubSeq(registry_url, 1, n - 4)
                ELSE TrimEndSlashes(registry_url)
    IN root \o S_v2 \o S_slash \o image \o S_manifests \o tag

\* C32: check_image normalises the registry URL before it probes: a trailing
\* "/v1/" becomes "/v2", a trailing "/v2/" becomes "/v2", any other URL gets
\* "/v2" appended, and every HEAD goes to "{normalised}/{image}/manifests/{tag}".
C32_HeadGoesToNormalisedUrl ==
    call.op = "check_image" =>
      \A k \in 1..Len(call.heads) :
         call.heads[k].url = ExpectedManifestUrl(call.checker.registry_url, call.image, call.tag)

\* C33: a reconciliation that reached the end of the patch path has sent the
\* success notification when a notification endpoint is configured, and has
\* sent none when no endpoint is configured.
C33_SuccessNotificationIffEndpoint ==
    \A i \in DepIds :
        (Done(i) /\ tasks[i].result = ResultOk /\ tasks[i].latest = "ok"
                 /\ tasks[i].patch = "ok" /\ tasks[i].commit = "ok") =>
            (tasks[i].endpoint <=> "patched" \in (tasks[i].sent \cup tasks[i].lost))

\* the reconciliation of i was started and has not finished
InFlight(i) == tasks[i].pc \notin {"none", "done"}

\* C34: on a trigger the dispatcher starts one reconciliation for every
\* enabled Entry of the snapshot and none for a disabled Entry or for a
\* Deployment that is not in the snapshot; reconciliations start nowhere
\* else; the handler returns only when every one of them has finished.
C34_DispatchStartsEnabledAndJoinsAll ==
    [][ /\ (phase = "idle" /\ phase' = "polling") =>
            \A i \in DepIds :
                (tasks'[i].pc # "none") <=> (i \in Range(data') /\ Cfg(i).enabled)
        /\ \A i \in DepIds :
             (tasks[i].pc = "none" /\ tasks'[i].pc # "none") =>
                 (phase = "idle" /\ phase' = "polling")
        /\ (phase = "polling" /\ phase' = "idle") =>
            /\ \A i \in DepIds : ~InFlight(i)
            /\ \A i \in Range(data) : Cfg(i).enabled => tasks[i].pc = "done"
      ]_vars

\* two reconciliations of one trigger are in flight together, both past
\* their key fetch
C34_Witness_TwoInFlight ==
    /\ phase = "polling"
    /\ \E i, j \in DepIds :
         /\ i # j
         /\ InFlight(i) /\ InFlight(j)
         /\ tasks[i].key = "ok" /\ tasks[j].key = "ok"
         /\ tasks[i].clone_app = "done" /\ tasks[j].clone_app = "running"

\* C35: a reconciliation ends "up to date" only when the manifest file was
\* read as a Deployment and one of its container images contains the new
\* SHA; a missing or unparseable manifest file is never reported up to date.
C35_UpToDateOnlyWhenFileSaysSo ==
    \A i \in DepIds :
        (Done(i) /\ tasks[i].result = ResultErr(MsgUpToDate) /\ tasks[i].latest = "ok") =>
            FileContains(tasks[i].pre, tasks[i].new_sha)

\* C36: after patch_deployment(file, N, S) has returned Ok,
\* needs_patching(file, S) returns false.
C36_PatchedNeedsNoPatch ==
    call.op = "needs_patching_after_patch" => call.out = Some(FALSE)

\* C37: the "patched successfully" notification is sent only in a
\* reconciliation whose patch_deployment and commit_changes both returned
\* Ok, never after a failed patch, commit or push.
C37_SuccessNotificationOnlyAfterSuccess ==
    \A i \in DepIds :
        ("patched" \in tasks[i].sent /\ tasks[i].latest = "ok") =>
            (tasks[i].patch = "ok" /\ tasks[i].commit = "ok")

\* the master branch of the manifest remote has "{image_name}:{S}", S being
\* the commit id of the application head
RemoteHasImage ==
    FileContains(commits[remote[S_manifest_url][S_master]].tree,
                 ImageRef(Cfg(LiveId).image_name, ShaOf(remote[S_app_url][S_master])))

\* C38: for an enabled entry that observes master, with a matching container
\* in its manifest, the application head staying at S and nothing failing,
\* repeated triggers bring "{image_name}:{S}" to the master branch of the
\* manifest remote, where it stays; every reconciliation that ends after a
\* trigger found it there ends "up to date" and has made no commit.
C38_ConvergesAndStays ==
    /\ <>[]RemoteHasImage
    /\ [](RemoteHasImage /\ phase = "idle" =>
            [](Done(LiveId) =>
                 /\ tasks[LiveId].result = ResultErr(MsgUpToDate)
                 /\ tasks[LiveId].commits_made = 0))

\* a reconciliation patched and pushed, and the next one ended up to date
C38_Witness_UpToDateAfterPatch ==
    /\ dispatches >= 1
    /\ prev[LiveId].result = ResultOk /\ prev[LiveId].pushes = 1
    /\ RemoteHasImage
    /\ Done(LiveId)
    /\ tasks[LiveId].result = ResultErr(MsgUpToDate)

C40_FilesCallsAlwaysReturn ==
    /\ (call.op \in {"needs_patching", "needs_patching_after_patch"}
            /\ call.file.kind = "deployment") =>
          call.out # Panic
    /\ (call.op = "patch_deployment" /\ call.file.kind = "deployment") =>
          ~call.out.panic

====
